---- MODULE Spec2Model ----
(***************************************************************************)
(* Model of the telemetry-analytics engine of racepilot-backend            *)
(* (app/routes/ai.py): signal preprocessing, maneuver detection and the    *)
(* performance-baseline estimator, with the record store they write to.    *)
(*                                                                         *)
(* Numbers.  The code computes in floats; the model computes the same      *)
(* expressions exactly, in fixed point:                                    *)
(*   - headings are whole degrees, speeds are tenths of a knot, time-      *)
(*     stamps are whole seconds;                                           *)
(*   - a smoothed series is carried as its numerators over the common      *)
(*     denominator movavg_den (the window size w, or 1 when movavg hands   *)
(*     its input back), so acc / w is never rounded;                       *)
(*   - the values rounded for the response are integers in the rounded     *)
(*     unit (tenths of a degree, hundredths of a knot, tenths of a second).*)
(* Sequences are indexed from 0 as in the code, through At.                *)
(***************************************************************************)
EXTENDS Integers, Sequences, FiniteSets, TLC

VARIABLES
    vals,        \* preprocessor: the list handed to unwrap_deg / movavg
    w,           \* preprocessor: the window handed to movavg
    out,         \* preprocessor: the list returned
    called,      \* preprocessor: which function produced out
    track,       \* trackpoints table: session id -> its points, ts ascending
    maneuvers,   \* maneuvers table, in insertion order
    responses,   \* the DetectResponse of every detect_maneuvers call, with its request
    stats,       \* the last answer of get_maneuver_stats, as a set of at most one
    windpts,     \* trackpoints table as the baseline estimator and the anomaly
                 \* detector read it: session id -> kind of point -> how many
    baselines,   \* performance_baselines table (committed rows), in id order
    anomalies,   \* performance_anomalies table (committed rows)
    clock,       \* datetime.utcnow(), as the number of requests begun
    procs,       \* the requests in progress: position, staged writes
    reply,       \* the last reply of an endpoint, at most one (the replies so far
                 \* where requests run concurrently)
    vmgopts,     \* vmg_optimizations table, in id order
    shifts,      \* wind_shifts table, in id order
    patterns,    \* wind_patterns table, in id order
    recs         \* coaching_recommendations table, in id order

preVars == <<vals, w, out, called>>

manVars == <<track, maneuvers, responses, stats>>

baseVars == <<windpts, baselines, anomalies, clock, procs, reply>>

tacVars == <<vmgopts, shifts, patterns, recs>>

vars == <<vals, w, out, called, track, maneuvers, responses, stats,
          windpts, baselines, anomalies, clock, procs, reply,
          vmgopts, shifts, patterns, recs>>

\* ------------------------------------------------------------------ helpers

At(s, i) == s[i + 1]

Abs(x) == IF x < 0 THEN -x ELSE x

Max2(a, b) == IF a > b THEN a ELSE b

Min2(a, b) == IF a < b THEN a ELSE b

RECURSIVE SeqsUpTo(_, _)
SeqsUpTo(S, n) ==
    IF n = 0 THEN {<<>>}
    ELSE LET shorter == SeqsUpTo(S, n - 1)
         IN  shorter \cup {Append(s, x) : s \in {t \in shorter : Len(t) = n - 1}, x \in S}

\* ------------------------------------------------------- Signal Preprocessor

\* unwrap_deg: the offset in force after the element at index k has been read
\* (offset is only changed from the second element on).
RECURSIVE unwrap_offset_wrong(_, _)
unwrap_offset_wrong(degs, k) ==
    IF k = 0 THEN 0
    ELSE LET diff == At(degs, k) - At(degs, k - 1)
         IN  IF diff > 180 THEN -360
             ELSE IF diff < -180 THEN 360
             ELSE unwrap_offset_wrong(degs, k - 1)

RECURSIVE unwrap_offset(_, _)
unwrap_offset(degs, k) ==
    IF k = 0 THEN 0
    ELSE LET diff == At(degs, k) - At(degs, k - 1)
             offset == unwrap_offset(degs, k - 1)
         IN  IF diff > 180 THEN offset - 360
             ELSE IF diff < -180 THEN offset + 360
             ELSE offset

unwrap_deg(degs) ==
    [k1 \in 1..Len(degs) |-> degs[k1] + unwrap_offset(degs, k1 - 1)]

\* movavg: the accumulator after the element at index i has been added and
\* the element leaving the window subtracted.
RECURSIVE movavg_acc(_, _, _)
movavg_acc(vs, win, i) ==
    IF i < 0 THEN 0
    ELSE movavg_acc(vs, win, i - 1) + At(vs, i)
         - (IF i >= win THEN At(vs, i - win) ELSE 0)

\* The denominator of the values movavg returns: acc / w is kept as acc over w.
movavg_den(n, win) == IF win <= 1 \/ n < win THEN 1 ELSE win

movavg_nowarmup(vs, win) ==
    IF win <= 1 \/ Len(vs) < win THEN vs
    ELSE [i1 \in 1..Len(vs) |-> movavg_acc(vs, win, i1 - 1)]

\* movavg(vals, w), as numerators over movavg_den(len(vals), w).
movavg(vs, win) ==
    IF win <= 1 \/ Len(vs) < win THEN vs
    ELSE [i1 \in 1..Len(vs) |->
            IF i1 - 1 >= win - 1 THEN movavg_acc(vs, win, i1 - 1)
            ELSE vs[i1] * win]

\* ------------------------------------------------ preprocessor: specifications

MaxDegs == 4
MaxVals == 5
MaxW == 4

HeadingChoices == {0, 1, 90, 179, 180, 181, 270, 359}

ValChoices == 1..5

PreIdle == vals = <<>> /\ w = 0 /\ out = <<>> /\ called = "none"

\* The record store with no session, no point and no derived row.
ManIdle ==
    /\ track = <<>>
    /\ maneuvers = <<>>
    /\ responses = <<>>
    /\ stats = {}

\* No wind data, no baseline, no anomaly, no request in progress.
BaseIdle ==
    /\ windpts = <<>>
    /\ baselines = <<>>
    /\ anomalies = <<>>
    /\ clock = 0
    /\ procs = <<>>
    /\ reply = {}

TacIdle == vmgopts = <<>> /\ shifts = <<>> /\ patterns = <<>> /\ recs = <<>>

CallUnwrap ==
    /\ called = "none"
    /\ out' = unwrap_deg(vals)
    /\ called' = "unwrap_deg"
    /\ UNCHANGED <<vals, w>>
    /\ UNCHANGED manVars
    /\ UNCHANGED baseVars
    /\ UNCHANGED tacVars

CallMovavg ==
    /\ called = "none"
    /\ out' = movavg(vals, w)
    /\ called' = "movavg"
    /\ UNCHANGED <<vals, w>>
    /\ UNCHANGED manVars
    /\ UNCHANGED baseVars
    /\ UNCHANGED tacVars

InitUnwrap ==
    /\ vals \in SeqsUpTo(HeadingChoices, MaxDegs)
    /\ w = 0 /\ out = <<>> /\ called = "none"
    /\ ManIdle
    /\ BaseIdle
    /\ TacIdle

InitMovavg ==
    /\ vals \in SeqsUpTo(ValChoices, MaxVals)
    /\ w \in 0..MaxW
    /\ out = <<>> /\ called = "none"
    /\ ManIdle
    /\ BaseIdle
    /\ TacIdle

SpecUnwrap == InitUnwrap /\ [][CallUnwrap]_vars

SpecMovavg == InitMovavg /\ [][CallMovavg]_vars

\* C6: for headings in [0, 360), unwrap_deg keeps the length, every output
\* element is congruent to its input modulo 360, and two consecutive output
\* elements differ by at most 180.
C6_UnwrapCongruentAndContinuous ==
    called = "unwrap_deg" =>
        /\ Len(out) = Len(vals)
        /\ \A k \in 1..Len(vals) : out[k] % 360 = vals[k]
        /\ \A k \in 2..Len(vals) : Abs(out[k] - out[k - 1]) <= 180

\* Two wraps in the same direction have happened: the offset has accumulated.
C6_Witness ==
    /\ called = "unwrap_deg"
    /\ Len(vals) = 4
    /\ out[4] >= 720

\* Sum of vals[lo .. hi] (indices from 0, inclusive).
RECURSIVE SumRange(_, _, _)
SumRange(vs, lo, hi) == IF hi < lo THEN 0 ELSE At(vs, hi) + SumRange(vs, lo, hi - 1)

\* C7: movavg returns its input when w <= 1 or len(vals) < w; otherwise the
\* first w-1 elements pass through and every later element is the mean of the
\* trailing w inputs; w = 3 on [1,2,3,4,5] gives [1,2,2,3,4].
C7_MovavgWarmupThenTrailingMean ==
    called = "movavg" =>
        /\ Len(out) = Len(vals)
        /\ (w <= 1 \/ Len(vals) < w) => out = vals
        /\ ~(w <= 1 \/ Len(vals) < w) =>
              \A i \in 0..(Len(vals) - 1) :
                  /\ i < w - 1  => At(out, i) = At(vals, i) * movavg_den(Len(vals), w)
                  /\ i >= w - 1 => At(out, i) = SumRange(vals, i - w + 1, i)
        /\ (vals = <<1, 2, 3, 4, 5>> /\ w = 3) =>
              /\ movavg_den(Len(vals), w) = 3
              /\ out = <<1 * 3, 2 * 3, 2 * 3, 3 * 3, 4 * 3>>

C7_Witness ==
    /\ called = "movavg"
    /\ vals = <<1, 2, 3, 4, 5>>
    /\ w = 3
    /\ out = <<3, 6, 6, 9, 12>>

\* ------------------------------------------------------- Maneuver Detector

\* Optional[x]: None is the empty set, a present value x is {x}.
None == {}

Some(x) == {x}

The(s) == CHOOSE x \in s : TRUE

\* round(n / d) as Python 3 rounds: to nearest, ties to even (d > 0).
RoundHalfEven(n, d) ==
    LET q == n \div d
        r == n % d
    IN  IF 2 * r < d THEN q
        ELSE IF 2 * r > d THEN q + 1
        ELSE IF q % 2 = 0 THEN q ELSE q + 1

\* db.query(TrackPoint).filter(session_id == sid).order_by(ts.asc()).all()
points_of(sid) == IF sid \in DOMAIN track THEN track[sid] ELSE <<>>

\* The look-ahead with the window closed one point early ("<" for "<=").
RECURSIVE window_end_exclusive(_, _, _, _)
window_end_exclusive(ts, j, start_t, max_window_sec) ==
    IF j < Len(ts) /\ At(ts, j) - start_t < max_window_sec
    THEN window_end_exclusive(ts, j + 1, start_t, max_window_sec)
    ELSE j

\* The look-ahead run to the end of the list, whatever the time elapsed.
window_end_unbounded(ts, j, start_t, max_window_sec) == Len(ts)

\* j after "while j < n and (ts[j] - start_t).total_seconds() <= max_window_sec"
RECURSIVE window_end(_, _, _, _)
window_end(ts, j, start_t, max_window_sec) ==
    IF j < Len(ts) /\ At(ts, j) - start_t <= max_window_sec
    THEN window_end(ts, j + 1, start_t, max_window_sec)
    ELSE j

\* min(s[i:j]) for i < j
RECURSIVE min_slice(_, _, _)
min_slice(s, i, j) ==
    IF j - i <= 1 THEN At(s, i)
    ELSE Min2(At(s, j - 1), min_slice(s, i, j - 1))

\* "Compute turn metrics" for the window [i, j): numerators over den.
turn_metrics(sog_s, cog_s, i, j) ==
    LET head_start == At(cog_s, i)
        head_end == At(cog_s, j - 1)
        entry == At(sog_s, i)
        vmin == min_slice(sog_s, i, j)
    IN  [head_start |-> head_start,
         head_end   |-> head_end,
         dtheta     |-> Abs(head_end - head_start),
         entry      |-> entry,
         vmin       |-> vmin,
         speed_drop |-> Max2(0, entry - vmin)]

is_maneuver_strict(m, req, den) ==
    /\ m.dtheta > req.theta_min_deg * den
    /\ m.speed_drop > req.speed_drop_kn * den

\* "if dtheta >= req.theta_min_deg and speed_drop >= req.speed_drop_kn"
is_maneuver(m, req, den) ==
    /\ m.dtheta >= req.theta_min_deg * den
    /\ m.speed_drop >= req.speed_drop_kn * den

\* diff(a, b) = (a - b + 540) % 360 - 180, on numerators over u.
angle_diff(a, b, u) == ((a - b + 540 * u) % (360 * u)) - 180 * u

\* "Classify type": head_start, head_end are numerators over den.
classify(head_start, head_end, twd, den) ==
    IF twd = None THEN "turn"
    ELSE LET t == The(twd)
             sdiff == angle_diff(head_start % (360 * den), (t % 360) * den, den)
             ediff == angle_diff(head_end % (360 * den), (t % 360) * den, den)
             \* mid_h = (head_start + head_end) / 2, a numerator over 2 * den
             mid_h == head_start + head_end
             u2 == 2 * den
         IN  IF (sdiff > 0 /\ 0 > ediff) \/ (sdiff < 0 /\ 0 < ediff) THEN "tack"
             ELSE IF Abs(angle_diff(mid_h % (360 * u2), ((t + 180) % 360) * u2, u2)) < 60 * u2
                  THEN "gybe"
                  ELSE "turn"

\* The score cut to an integer without rounding: int(max(0, min(100, score))).
score_truncated(duration, speed_drop, dtheta, den) ==
    LET score == 2000 * den - 30 * den * duration - 24 * speed_drop
                 - 5 * Max2(0, dtheta - 110 * den)
    IN  Max2(0, Min2(100, score \div (20 * den)))

\* score = 100 - 1.5*duration - 12*speed_drop - 0.25*max(0, dtheta - 110), then
\* int(max(0, min(100, round(score)))).  duration in seconds; speed_drop is a
\* numerator over 10 * den (tenths of a knot over den), dtheta over den: the
\* score is the numerator below over 20 * den.
score_0_100(duration, speed_drop, dtheta, den) ==
    LET score == 2000 * den - 30 * den * duration - 24 * speed_drop
                 - 5 * Max2(0, dtheta - 110 * den)
    IN  Max2(0, Min2(100, RoundHalfEven(score, 20 * den)))

\* The loop resuming, after a maneuver, from the maneuver's last point
\* ("i = j - 1").
RECURSIVE scan_overlapping(_, _, _, _, _, _)
scan_overlapping(ts, sog_s, cog_s, den, req, i) ==
    IF ~(i < Len(ts) - 2) THEN <<>>
    ELSE IF At(sog_s, i) < req.min_sog_kn * den
    THEN <<[i |-> i, j |-> i + 1, outcome |-> "slow"]>>
         \o scan_overlapping(ts, sog_s, cog_s, den, req, i + 1)
    ELSE LET j == window_end(ts, i + 1, At(ts, i), req.max_window_sec)
         IN  IF j - i < 2
             THEN <<[i |-> i, j |-> j, outcome |-> "short"]>>
                  \o scan_overlapping(ts, sog_s, cog_s, den, req, i + 1)
             ELSE IF is_maneuver(turn_metrics(sog_s, cog_s, i, j), req, den)
             THEN <<[i |-> i, j |-> j, outcome |-> "emit"]>>
                  \o scan_overlapping(ts, sog_s, cog_s, den, req, j - 1)
             ELSE <<[i |-> i, j |-> j, outcome |-> "miss"]>>
                  \o scan_overlapping(ts, sog_s, cog_s, den, req, i + 1)

\* One pass of "while i < n - 2" from index i on: the windows it looks at, in
\* order, each with what the loop did with it:
\*   "slow"  sog_s[i] < min_sog_kn          (i += 1)
\*   "short" j - i < 2                      (i += 1)
\*   "miss"  a window below a threshold     (i += 1)
\*   "emit"  a maneuver over [i, j - 1]     (i = j)
RECURSIVE scan(_, _, _, _, _, _)
scan(ts, sog_s, cog_s, den, req, i) ==
    IF ~(i < Len(ts) - 2) THEN <<>>
    ELSE IF At(sog_s, i) < req.min_sog_kn * den
    THEN <<[i |-> i, j |-> i + 1, outcome |-> "slow"]>>
         \o scan(ts, sog_s, cog_s, den, req, i + 1)
    ELSE LET j == window_end(ts, i + 1, At(ts, i), req.max_window_sec)
         IN  IF j - i < 2
             THEN <<[i |-> i, j |-> j, outcome |-> "short"]>>
                  \o scan(ts, sog_s, cog_s, den, req, i + 1)
             ELSE IF is_maneuver(turn_metrics(sog_s, cog_s, i, j), req, den)
             THEN <<[i |-> i, j |-> j, outcome |-> "emit"]>>
                  \o scan(ts, sog_s, cog_s, den, req, j)
             ELSE <<[i |-> i, j |-> j, outcome |-> "miss"]>>
                  \o scan(ts, sog_s, cog_s, den, req, i + 1)

\* The same loop started on any list, with "while i < n" : no degenerate-input
\* guard and no room kept for a window.
RECURSIVE scan_unguarded(_, _, _, _, _, _)
scan_unguarded(ts, sog_s, cog_s, den, req, i) ==
    IF ~(i < Len(ts)) THEN <<>>
    ELSE IF At(sog_s, i) < req.min_sog_kn * den
    THEN <<[i |-> i, j |-> i + 1, outcome |-> "slow"]>>
         \o scan_unguarded(ts, sog_s, cog_s, den, req, i + 1)
    ELSE LET j == window_end(ts, i + 1, At(ts, i), req.max_window_sec)
         IN  IF j - i < 2
             THEN <<[i |-> i, j |-> j, outcome |-> "short"]>>
                  \o scan_unguarded(ts, sog_s, cog_s, den, req, i + 1)
             ELSE IF is_maneuver(turn_metrics(sog_s, cog_s, i, j), req, den)
             THEN <<[i |-> i, j |-> j, outcome |-> "emit"]>>
                  \o scan_unguarded(ts, sog_s, cog_s, den, req, j)
             ELSE <<[i |-> i, j |-> j, outcome |-> "miss"]>>
                  \o scan_unguarded(ts, sog_s, cog_s, den, req, i + 1)

ts_list(pts) == [k \in 1..Len(pts) |-> pts[k].ts]

sog_list(pts) == [k \in 1..Len(pts) |-> pts[k].sog]

cog_list(pts) == [k \in 1..Len(pts) |-> pts[k].cog]

detect_steps_unguarded(req) ==
    LET pts == points_of(req.session_id)
        den == movavg_den(Len(pts), req.smooth_window)
    IN  scan_unguarded(ts_list(pts), movavg(sog_list(pts), req.smooth_window),
                       movavg(unwrap_deg(cog_list(pts)), req.smooth_window), den, req, 0)

\* detect_maneuvers up to the end of its loop: the windows the pass looked at.
detect_steps(req) ==
    LET pts == points_of(req.session_id)
        den == movavg_den(Len(pts), req.smooth_window)
    IN  IF Len(pts) < 3 THEN <<>>
        ELSE scan(ts_list(pts), movavg(sog_list(pts), req.smooth_window),
                  movavg(unwrap_deg(cog_list(pts)), req.smooth_window), den, req, 0)

\* What the loop body computes for an emitted window [i, j): the values the
\* ManeuverResponse and the Maneuver row are built from, rounded as there
\* (angle to 0.1 degree, speeds to 0.01 kn, duration to 0.1 s).
maneuver_data(req, i, j) ==
    LET pts == points_of(req.session_id)
        den == movavg_den(Len(pts), req.smooth_window)
        m == turn_metrics(movavg(sog_list(pts), req.smooth_window),
                          movavg(unwrap_deg(cog_list(pts)), req.smooth_window), i, j)
        t0 == At(pts, i).ts
        t1 == At(pts, j - 1).ts
        duration == t1 - t0
    IN  [type             |-> classify(m.head_start, m.head_end, req.twd, den),
         start_ts         |-> t0,
         end_ts           |-> t1,
         angle_change_deg |-> RoundHalfEven(10 * m.dtheta, den),
         entry_sog_kn     |-> RoundHalfEven(10 * m.entry, den),
         min_sog_kn       |-> RoundHalfEven(10 * m.vmin, den),
         time_through_sec |-> 10 * duration,
         speed_loss_kn    |-> RoundHalfEven(10 * m.speed_drop, den),
         score_0_100      |-> score_0_100(duration, m.speed_drop, m.dtheta, den)]

emitted(steps) == SelectSeq(steps, LAMBDA st : st.outcome = "emit")

\* A pass that leaves out the maneuvers the table already holds for the session.
response_maneuvers_dedup(req) ==
    LET e == emitted(detect_steps(req))
        all == [k \in 1..Len(e) |-> maneuver_data(req, e[k].i, e[k].j)]
    IN  SelectSeq(all, LAMBDA d : ~\E r \in 1..Len(maneuvers) :
                                      /\ maneuvers[r].session_id = req.session_id
                                      /\ maneuvers[r].data.start_ts = d.start_ts
                                      /\ maneuvers[r].data.end_ts = d.end_ts)

\* DetectResponse.maneuvers
response_maneuvers(req) ==
    LET e == emitted(detect_steps(req))
    IN  [k \in 1..Len(e) |-> maneuver_data(req, e[k].i, e[k].j)]

\* The Maneuver rows db.add()ed by one pass (ids follow the rows already stored;
\* the start/end coordinates, copied from the two points, are not modelled).
new_rows(req) ==
    LET rm == response_maneuvers(req)
    IN  [k \in 1..Len(rm) |->
            [id |-> Len(maneuvers) + k,
             session_id |-> req.session_id,
             data |-> rm[k],
             twd |-> req.twd,
             detection_params |-> [theta_min_deg  |-> req.theta_min_deg,
                                   max_window_sec |-> req.max_window_sec,
                                   smooth_window  |-> req.smooth_window,
                                   min_sog_kn     |-> req.min_sog_kn,
                                   speed_drop_kn  |-> req.speed_drop_kn]]]

\* POST /maneuvers/detect
detect_maneuvers(req) ==
    /\ maneuvers' = maneuvers \o new_rows(req)
    /\ responses' = Append(responses, [req |-> req, maneuvers |-> response_maneuvers(req)])
    /\ UNCHANGED <<track, stats>>
    /\ UNCHANGED preVars
    /\ UNCHANGED baseVars
    /\ UNCHANGED tacVars

\* ---- get_maneuver_stats

\* sum(...) over a list of numbers
RECURSIVE sum_seq(_)
sum_seq(s) == IF s = <<>> THEN 0 ELSE Head(s) + sum_seq(Tail(s))

\* max(tacks, key=score): the first row with the highest score.
RECURSIVE max_by_score(_)
max_by_score(rows) ==
    IF Len(rows) = 1 THEN rows[1]
    ELSE LET b == max_by_score(SubSeq(rows, 1, Len(rows) - 1))
             last == rows[Len(rows)]
         IN  IF last.data.score_0_100 > b.data.score_0_100 THEN last ELSE b

\* min(tacks, key=score): the first row with the lowest score.
RECURSIVE min_by_score(_)
min_by_score(rows) ==
    IF Len(rows) = 1 THEN rows[1]
    ELSE LET b == min_by_score(SubSeq(rows, 1, Len(rows) - 1))
             last == rows[Len(rows)]
         IN  IF last.data.score_0_100 < b.data.score_0_100 THEN last ELSE b

\* "round(avg, d) if avg else None" for avg = total / n in the rows' unit
rounded_or_none(total, n) ==
    IF n = 0 \/ total = 0 THEN None ELSE Some(RoundHalfEven(total, n))

get_maneuver_stats(session_id) ==
    LET rows == SelectSeq(maneuvers, LAMBDA m : m.session_id = session_id)
        tacks == SelectSeq(rows, LAMBDA m : m.data.type = "tack")
        gybes == SelectSeq(rows, LAMBDA m : m.data.type = "gybe")
        turns == SelectSeq(rows, LAMBDA m : m.data.type = "turn")
        scores(rs) == [k \in 1..Len(rs) |-> rs[k].data.score_0_100]
        times(rs) == [k \in 1..Len(rs) |-> rs[k].data.time_through_sec]
        losses(rs) == [k \in 1..Len(rs) |-> rs[k].data.speed_loss_kn]
    IN  [session_id      |-> session_id,
         total_maneuvers |-> Len(rows),
         tacks           |-> Len(tacks),
         gybes           |-> Len(gybes),
         turns           |-> Len(turns),
         avg_tack_score  |-> rounded_or_none(10 * sum_seq(scores(tacks)), Len(tacks)),
         avg_gybe_score  |-> rounded_or_none(10 * sum_seq(scores(gybes)), Len(gybes)),
         avg_tack_time   |-> rounded_or_none(sum_seq(times(tacks)), Len(tacks)),
         avg_speed_loss  |-> rounded_or_none(sum_seq(losses(rows)), Len(rows)),
         best_tack       |-> IF tacks = <<>> THEN None
                             ELSE Some(max_by_score(tacks).id),
         worst_tack      |-> IF tacks = <<>> THEN None
                             ELSE Some(min_by_score(tacks).id)]

\* GET /maneuvers/stats/{session_id}
GetManeuverStats(session_id) ==
    /\ stats' = {get_maneuver_stats(session_id)}
    /\ UNCHANGED <<track, maneuvers, responses>>
    /\ UNCHANGED preVars
    /\ UNCHANGED baseVars
    /\ UNCHANGED tacVars

\* ------------------------------------------- maneuver detector: specifications

MaxPts == 4
MaxRunPts == 3
MaxRuns == 3

SessionIds == {1, 2}

\* (sog in tenths of a knot, cog in degrees): sailing at 6.0 kn heading 350;
\* 55 degrees further through north and 0.8 kn slower; the same turn with
\* 0.1 kn less of a slowdown; drifting at 0.5 kn.
Profiles == {<<60, 350>>, <<52, 45>>, <<53, 45>>, <<5, 350>>}

RunProfiles == {<<60, 350>>, <<52, 45>>, <<5, 350>>}

\* Seconds between consecutive points: inside and beyond max_window_sec.
Gaps == {10, 25}

RunGaps == {10}

\* The ts-ascending point lists of exactly n points.
RECURSIVE TracksOfLen(_, _, _)
TracksOfLen(n, profiles, gaps) ==
    IF n = 0 THEN {<<>>}
    ELSE IF n = 1 THEN {<<[ts |-> 0, sog |-> p[1], cog |-> p[2]]>> : p \in profiles}
    ELSE {Append(t, [ts |-> t[Len(t)].ts + g, sog |-> p[1], cog |-> p[2]]) :
            t \in TracksOfLen(n - 1, profiles, gaps), g \in gaps, p \in profiles}

TracksUpTo(n, profiles, gaps) == UNION {TracksOfLen(k, profiles, gaps) : k \in 0..n}

\* DetectRequest: the defaults of the class, with the smoothing window and the
\* wind direction varied (speeds in tenths of a knot).
Requests ==
    [session_id     : SessionIds,
     twd            : {None, Some(20)},
     theta_min_deg  : {55},
     max_window_sec : {20},
     smooth_window  : {1, 3},
     min_sog_kn     : {10},
     speed_drop_kn  : {8}]

\* One detection pass over a stored session.
InitScan ==
    /\ PreIdle
    /\ BaseIdle
    /\ TacIdle
    /\ track \in {[sid \in SessionIds |-> IF sid = 1 THEN t ELSE <<>>] :
                    t \in TracksUpTo(MaxPts, Profiles, Gaps)}
    /\ maneuvers = <<>>
    /\ responses = <<>>
    /\ stats = {}

\* Every request for the session with points, one for the session without.
ScanRequests ==
    {r \in Requests : r.session_id = 1 \/ (r.twd = None /\ r.smooth_window = 3)}

DetectOnce == \E req \in ScanRequests : responses = <<>> /\ detect_maneuvers(req)

SpecScan == InitScan /\ [][DetectOnce]_vars

\* One detection pass over a session long enough for several maneuvers.
MaxTurnPts == 5

InitTurns ==
    /\ PreIdle
    /\ BaseIdle
    /\ TacIdle
    /\ track \in {[sid \in SessionIds |-> IF sid = 1 THEN t ELSE <<>>] :
                    t \in TracksUpTo(MaxTurnPts, RunProfiles, Gaps)}
    /\ maneuvers = <<>>
    /\ responses = <<>>
    /\ stats = {}

TurnRequests == {r \in Requests : r.session_id = 1 /\ r.twd = None}

DetectTurns == \E req \in TurnRequests : responses = <<>> /\ detect_maneuvers(req)

SpecTurns == InitTurns /\ [][DetectTurns]_vars

\* Repeated passes and statistics reads over a stored session.
InitDetect ==
    /\ PreIdle
    /\ BaseIdle
    /\ TacIdle
    /\ track \in {[sid \in SessionIds |-> IF sid = 1 THEN t ELSE <<>>] :
                    t \in TracksUpTo(MaxRunPts, RunProfiles, RunGaps)}
    /\ maneuvers = <<>>
    /\ responses = <<>>
    /\ stats = {}

RunRequests == {r \in Requests : r.session_id = 1}

Detect == \E req \in RunRequests : Len(responses) < MaxRuns /\ detect_maneuvers(req)

Stats == \E sid \in SessionIds : GetManeuverStats(sid)

NextDetect == Detect \/ Stats

SpecDetect == InitDetect /\ [][NextDetect]_vars

\* The end-to-end scenario: a session sampled every `period` seconds that
\* holds `lead` points at 6.0 kn on heading 90, then turns to 200 in 8 seconds
\* while slowing to 4.8 kn (both linearly, to the nearest degree and tenth of a
\* knot), then holds `tail` points at 4.8 kn on heading 200: at least as many
\* as the smoothing needs to settle on the new heading.
MaxLead == 22
MaxTail == 4

Periods == {1, 2, 4, 8}

RECURSIVE TurnPoints(_, _, _)
TurnPoints(t_start, period, k) ==
    IF k > 8 THEN <<>>
    ELSE <<[ts  |-> t_start + k,
            sog |-> 60 - ((12 * k + 4) \div 8),
            cog |-> 90 + ((110 * k + 4) \div 8)]>>
         \o TurnPoints(t_start, period, k + period)

ScenarioTrack(period, lead, tail) ==
    LET t_turn == (lead - 1) * period
    IN  [k \in 1..lead |-> [ts |-> (k - 1) * period, sog |-> 60, cog |-> 90]]
        \o TurnPoints(t_turn, period, period)
        \o [k \in 1..tail |-> [ts |-> t_turn + 8 + k * period, sog |-> 48, cog |-> 200]]

\* theta_min=55, speed_drop=0.8, the other parameters at their defaults.
ScenarioRequest ==
    [session_id     |-> 1,
     twd            |-> None,
     theta_min_deg  |-> 55,
     max_window_sec |-> 20,
     smooth_window  |-> 3,
     min_sog_kn     |-> 10,
     speed_drop_kn  |-> 8]

InitScenario ==
    /\ PreIdle
    /\ BaseIdle
    /\ TacIdle
    /\ track \in {[sid \in SessionIds |-> IF sid = 1 THEN ScenarioTrack(p, l, t) ELSE <<>>] :
                    p \in Periods, l \in 1..MaxLead,
                    t \in (ScenarioRequest.smooth_window - 1)..MaxTail}
    /\ maneuvers = <<>>
    /\ responses = <<>>
    /\ stats = {}

DetectScenario == responses = <<>> /\ detect_maneuvers(ScenarioRequest)

SpecScenario == InitScenario /\ [][DetectScenario]_vars

\* ------------------------------------------------ maneuver detector: claims

session_rows(sid) == SelectSeq(maneuvers, LAMBDA m : m.session_id = sid)

\* C1: a second detect_maneuvers run on an unchanged session with the same
\* parameters leaves the session's persisted Maneuver records, and the
\* total_maneuvers of get_maneuver_stats, as the first run left them: one
\* record per detected maneuver.
C1_RerunDoesNotDoubleCount ==
    (Len(responses) = 2 /\ responses[1].req = responses[2].req) =>
        LET sid == responses[1].req.session_id
        IN  /\ Len(session_rows(sid)) = Len(responses[1].maneuvers)
            /\ get_maneuver_stats(sid).total_maneuvers = Len(responses[1].maneuvers)

\* C2: two runs with the same request return the same maneuver list, whatever
\* the runs before them have persisted.
C2_SameRequestSameResponse ==
    \A a \in DOMAIN responses : \A b \in DOMAIN responses :
        responses[a].req = responses[b].req =>
            responses[a].maneuvers = responses[b].maneuvers

\* A run with other parameters, then two runs with the same ones, each run
\* finding a maneuver while the table already holds rows of the session.
C2_Witness ==
    /\ Len(responses) = 3
    /\ responses[1].req # responses[2].req
    /\ responses[2].req = responses[3].req
    /\ responses[1].maneuvers # <<>>
    /\ responses[3].maneuvers # <<>>
    /\ Len(maneuvers) >= 3

\* The window [i, j) of a request's pass reaches both thresholds (the smoothed
\* series recomputed here from the stored points).
WindowReaches(req, i, j) ==
    LET pts == points_of(req.session_id)
        den == movavg_den(Len(pts), req.smooth_window)
        sog_s == movavg(sog_list(pts), req.smooth_window)
        cog_s == movavg(unwrap_deg(cog_list(pts)), req.smooth_window)
    IN  /\ Abs(At(cog_s, j - 1) - At(cog_s, i)) >= req.theta_min_deg * den
        /\ At(sog_s, i) - min_slice(sog_s, i, j) >= req.speed_drop_kn * den

\* The window [i, j) sits exactly on both thresholds.
WindowOnThresholds(req, i, j) ==
    LET pts == points_of(req.session_id)
        den == movavg_den(Len(pts), req.smooth_window)
        sog_s == movavg(sog_list(pts), req.smooth_window)
        cog_s == movavg(unwrap_deg(cog_list(pts)), req.smooth_window)
    IN  /\ Abs(At(cog_s, j - 1) - At(cog_s, i)) = req.theta_min_deg * den
        /\ At(sog_s, i) - min_slice(sog_s, i, j) = req.speed_drop_kn * den

C9_FewPointsEmptyResult ==
    \A r \in DOMAIN responses :
        Len(points_of(responses[r].req.session_id)) < 3 =>
            /\ responses[r].maneuvers = <<>>
            /\ session_rows(responses[r].req.session_id) = <<>>

\* Two points that would make a maneuver between them, were two enough.
C9_Witness ==
    /\ Len(responses) = 1
    /\ responses[1].req.session_id = 1
    /\ responses[1].req.smooth_window = 1
    /\ track[1] = <<[ts |-> 0, sog |-> 60, cog |-> 350], [ts |-> 10, sog |-> 52, cog |-> 45]>>
    /\ responses[1].maneuvers = <<>>
    /\ maneuvers = <<>>

\* The sessions without any point are answered the same way.
C9_WitnessNoPoints ==
    /\ Len(responses) = 1
    /\ points_of(responses[1].req.session_id) = <<>>
    /\ responses[1].maneuvers = <<>>

\* ---- the end-to-end scenario

\* Index (from 0) of the point that ends the turn: the first one on heading 200.
TurnEnd == CHOOSE k \in 0..(Len(track[1]) - 1) :
               /\ At(track[1], k).cog = 200
               /\ \A h \in 0..(k - 1) : At(track[1], h).cog # 200

\* The turn and the two points after it (the lag of the 3-point smoothing) lie
\* within max_window_sec of the first point of the session.
TurnInFirstWindow ==
    /\ TurnEnd + 2 <= Len(track[1]) - 1
    /\ At(track[1], TurnEnd + 2).ts - At(track[1], 0).ts <= ScenarioRequest.max_window_sec

C3_WitnessCut ==
    /\ responses # <<>>
    /\ ~TurnInFirstWindow
    /\ Len(responses[1].maneuvers) = 1
    /\ responses[1].maneuvers[1].angle_change_deg < 1000

\* The index of the point of the session with timestamp t (the timestamps of a
\* stored session are distinct).
index_of_ts(pts, t) == CHOOSE k \in 0 .. Len(pts) - 1 : At(pts, k).ts = t

\* C19: the maneuvers of one pass are in ascending time order and do not
\* overlap: each starts at a point index strictly greater than the end index
\* of the one before, so no track point belongs to two maneuvers.
C19_ManeuversAscendingDisjoint ==
    \A r \in DOMAIN responses :
        LET ms == responses[r].maneuvers
            pts == points_of(responses[r].req.session_id)
        IN  \A k \in 1 .. Len(ms) - 1 :
                /\ index_of_ts(pts, ms[k + 1].start_ts) > index_of_ts(pts, ms[k].end_ts)
                /\ ms[k + 1].start_ts > ms[k].end_ts
                /\ ms[k].start_ts <= ms[k].end_ts

\* A pass that found two maneuvers in a session of five points.
C19_Witness ==
    \E r \in DOMAIN responses :
        /\ Len(responses[r].maneuvers) = 2
        /\ Len(points_of(responses[r].req.session_id)) = 5

\* C20: every maneuver emitted spans at least two track points, starts at a
\* point whose smoothed speed is at least min_sog_kn, and lasts between 0 and
\* max_window_sec seconds inclusive; the scan takes each index at most once, in
\* ascending order and below n - 2, so it ends after at most n - 2 iterations.
C20_WindowInvariantsAndTermination ==
    \A r \in DOMAIN responses :
        LET req == responses[r].req
            ms == responses[r].maneuvers
            pts == points_of(req.session_id)
            sog_s == movavg(sog_list(pts), req.smooth_window)
            den == movavg_den(Len(pts), req.smooth_window)
            steps == detect_steps(req)
        IN  /\ \A k \in DOMAIN ms :
                  LET i0 == index_of_ts(pts, ms[k].start_ts)
                      i1 == index_of_ts(pts, ms[k].end_ts)
                  IN  /\ i1 >= i0 + 1
                      /\ At(sog_s, i0) >= req.min_sog_kn * den
                      /\ ms[k].end_ts - ms[k].start_ts >= 0
                      /\ ms[k].end_ts - ms[k].start_ts <= req.max_window_sec
                      /\ ms[k].time_through_sec = 10 * (ms[k].end_ts - ms[k].start_ts)
            /\ \A k \in DOMAIN steps : steps[k].i >= 0 /\ steps[k].i < Len(pts) - 2
            /\ \A k \in 1 .. Len(steps) - 1 : steps[k + 1].i > steps[k].i
            /\ Len(steps) <= Max2(0, Len(pts) - 2)

\* A maneuver that takes the whole of max_window_sec, in a pass that also
\* skipped a slow point.
C20_Witness ==
    \E r \in DOMAIN responses :
        /\ \E k \in DOMAIN responses[r].maneuvers :
              responses[r].maneuvers[k].end_ts - responses[r].maneuvers[k].start_ts
                  = responses[r].req.max_window_sec
        /\ \E k \in DOMAIN detect_steps(responses[r].req) :
              detect_steps(responses[r].req)[k].outcome = "slow"

\* ------------------------------------------------------- Baseline Estimator

\* tws_bins, twa_bins of calculate_baseline_for_boat
tws_bins == <<<<0, 6>>, <<6, 12>>, <<12, 18>>, <<18, 30>>>>

twa_bins == <<<<0, 50>>, <<50, 70>>, <<70, 110>>, <<110, 180>>>>

\* The (tws bin, twa bin) pairs in the order of the two nested for loops.
bin_at(k) ==
    [tws_min |-> tws_bins[(k \div Len(twa_bins)) + 1][1],
     tws_max |-> tws_bins[(k \div Len(twa_bins)) + 1][2],
     twa_min |-> twa_bins[(k % Len(twa_bins)) + 1][1],
     twa_max |-> twa_bins[(k % Len(twa_bins)) + 1][2]]

NBins == Len(tws_bins) * Len(twa_bins)

\* sessions table: both sessions were sailed on boat 1; boat 2 has none.
BoatIds == {1, 2}

boat_of_session(sid) == 1

sessions_of_boat(boat_id) == {sid \in SessionIds : boat_of_session(sid) = boat_id}

\* The kinds of stored point the estimator can tell apart: ts in seconds, tws
\* in knots and twa in degrees (both optional), sog in tenths of a knot.
Kind(ts, tws, twa, sog) == [ts |-> ts, tws |-> tws, twa |-> twa, sog |-> sog]

KindSeq ==
    <<Kind(10, Some(8), Some(60), 100),    \* 10.0 kn in [6,12) x [50,70)
      Kind(20, Some(6), Some(-50), 40),    \* 4.0 kn on the lower edges of that bin, port tack
      Kind(30, Some(12), Some(70), 100),   \* on its upper edges: in [12,18) x [70,110)
      Kind(40, None, Some(60), 100),       \* no wind speed
      Kind(50, Some(8), Some(60), 5),      \* 0.5 kn: not above the drifting limit
      Kind(60, Some(30), Some(60), 100)>>  \* wind above every bin

Kinds == {KindSeq[k] : k \in DOMAIN KindSeq}

RECURSIVE sum_over(_, _)
sum_over(S, f) ==
    IF S = {} THEN 0
    ELSE LET x == CHOOSE y \in S : TRUE
         IN  f[x] + sum_over(S \ {x}, f)

\* filter(tws.isnot(None), twa.isnot(None), sog > 0.5)
has_wind_and_moves(k) == k.tws # None /\ k.twa # None /\ k.sog > 5

\* tws_min <= p.tws < tws_max and twa_min <= abs(p.twa) < twa_max
in_bin(k, b) ==
    /\ b.tws_min <= The(k.tws) /\ The(k.tws) < b.tws_max
    /\ b.twa_min <= Abs(The(k.twa)) /\ Abs(The(k.twa)) < b.twa_max

\* bin_points, as the number of points of each kind in the bin
bin_points(boat_id, b) ==
    [k \in {x \in Kinds : has_wind_and_moves(x) /\ in_bin(x, b)} |->
        sum_over(sessions_of_boat(boat_id), [sid \in SessionIds |-> windpts[sid][k]])]

bin_len(bp) == sum_over(DOMAIN bp, bp)

\* "Calculate statistics" for a bin of n = len(bin_points) >= 1 points:
\*   avg_sog = sum(speeds) / n                      kept as num / den
\*   variance = sum((s - avg_sog) ** 2) / n
\*   std_sog = variance ** 0.5                      kept as its square, sq_num / den ** 2
\* Both fractions are over the same den = n, so that avg_sog and std_sog compare
\* with a speed by integers alone.
bin_statistics(bp) ==
    LET n == bin_len(bp)
        total == sum_over(DOMAIN bp, [k \in DOMAIN bp |-> bp[k] * k.sog])
        \* (s - avg_sog) ** 2 = (n * s - total) ** 2 / n ** 2, and the sum of
        \* these numerators is a multiple of n
        sq_dev == sum_over(DOMAIN bp, [k \in DOMAIN bp |-> bp[k] * (n * k.sog - total) * (n * k.sog - total)])
    IN  [avg_sog      |-> [num |-> total, den |-> n],
         std_sog      |-> [sq_num |-> sq_dev \div n, den |-> n],
         sample_count |-> n]

\* db.query(PerformanceBaseline).filter(boat_id, tws_min, tws_max, twa_min,
\* twa_max).first(): the index of the row, in a set of at most one.
existing_baseline(rows, boat_id, b) ==
    LET hits == {r \in DOMAIN rows : rows[r].boat_id = boat_id /\ rows[r].bin = b}
    IN  IF hits = {} THEN None
        ELSE Some(CHOOSE r \in hits : \A q \in hits : r <= q)

\* not (len(bin_points) < 10)
has_enough_points(bp) == bin_len(bp) >= 10

\* The iteration with the bin accepted from 9 points on.
stage_bin_from_9(rows, boat_id, force_recalc, now, b) ==
    LET bp == bin_points(boat_id, b)
    IN  IF bin_len(bp) < 9 THEN <<>>
        ELSE LET st == bin_statistics(bp)
                 existing == existing_baseline(rows, boat_id, b)
             IN  IF existing # None /\ ~force_recalc
                 THEN <<[op |-> "update", row |-> The(existing), boat_id |-> boat_id,
                         bin |-> b, stat |-> st, last_updated |-> now]>>
                 ELSE <<[op |-> "insert", row |-> 0, boat_id |-> boat_id,
                         bin |-> b, stat |-> st, last_updated |-> now]>>

\* One iteration of the loop over the bins, run against the committed rows: the
\* write it leaves in the session, in a list of at most one.  A bin with fewer
\* than 10 points is passed over.
stage_bin(rows, boat_id, force_recalc, now, b) ==
    LET bp == bin_points(boat_id, b)
    IN  IF ~has_enough_points(bp) THEN <<>>
        ELSE LET st == bin_statistics(bp)
                 existing == existing_baseline(rows, boat_id, b)
             IN  IF existing # None /\ ~force_recalc
                 THEN <<[op |-> "update", row |-> The(existing), boat_id |-> boat_id,
                         bin |-> b, stat |-> st, last_updated |-> now]>>
                 ELSE <<[op |-> "insert", row |-> 0, boat_id |-> boat_id,
                         bin |-> b, stat |-> st, last_updated |-> now]>>

\* The writes of the iterations for the bins k .. NBins-1.
RECURSIVE stage_from(_, _, _, _, _)
stage_from(rows, boat_id, force_recalc, now, k) ==
    IF k >= NBins THEN <<>>
    ELSE stage_bin(rows, boat_id, force_recalc, now, bin_at(k))
         \o stage_from(rows, boat_id, force_recalc, now, k + 1)

\* db.commit(): the staged writes applied to the table, new rows taking the
\* next ids.
RECURSIVE commit_writes(_, _)
commit_writes(rows, writes) ==
    IF writes = <<>> THEN rows
    ELSE LET wr == Head(writes)
             fields == [boat_id |-> wr.boat_id, bin |-> wr.bin,
                        avg_sog |-> wr.stat.avg_sog, std_sog |-> wr.stat.std_sog,
                        sample_count |-> wr.stat.sample_count,
                        last_updated |-> wr.last_updated]
             next == IF wr.op = "update"
                     THEN [rows EXCEPT ![wr.row] = fields @@ [id |-> wr.row]]
                     ELSE Append(rows, fields @@ [id |-> Len(rows) + 1])
         IN  commit_writes(next, Tail(writes))

\* The writes of calculate_baseline_for_boat run in one piece.
baseline_writes(rows, boat_id, force_recalc, now) ==
    IF sessions_of_boat(boat_id) = {} THEN <<>>
    ELSE stage_from(rows, boat_id, force_recalc, now, 0)

\* "return baselines": the rows created (not the ones updated).
created_count(writes) == Len(SelectSeq(writes, LAMBDA wr : wr.op = "insert"))

\* --------------------------------------------------------- Anomaly Detector

boat_baselines(rows, boat_id) == SelectSeq(rows, LAMBDA bl : bl.boat_id = boat_id)

\* "Find matching baseline": the first one whose bin holds the point.
matching_baseline(bls, k) ==
    LET hits == {r \in DOMAIN bls : in_bin(k, bls[r].bin)}
    IN  IF hits = {} THEN None
        ELSE Some(bls[CHOOSE r \in hits : \A q \in hits : r <= q])

\* deviation = point.sog - avg_sog, as num / den
deviation(k, bl) == [num |-> k.sog * bl.avg_sog.den - bl.avg_sog.num, den |-> bl.avg_sog.den]

\* z_score < -limit, for z_score = deviation / std_sog with std_sog > 0 and
\* limit given in tenths.  Deviation and std_sog are over the same den, so
\* z_score ** 2 = dev.num ** 2 / sq_num:
\*   limit >= 0:  deviation < 0 and z_score ** 2 > (limit / 10) ** 2
\*   limit < 0:   deviation < 0 or  z_score ** 2 < (limit / 10) ** 2
z_below_minus(k, bl, limit) ==
    LET dev == deviation(k, bl)
    IN  IF limit >= 0
        THEN /\ dev.num < 0
             /\ 100 * dev.num * dev.num > limit * limit * bl.std_sog.sq_num
        ELSE \/ dev.num < 0
             \/ 100 * dev.num * dev.num < limit * limit * bl.std_sog.sq_num

severity_of(k, bl) ==
    IF z_below_minus(k, bl, 30) THEN "severe"
    ELSE IF z_below_minus(k, bl, 25) THEN "moderate"
    ELSE "minor"

\* "Analyze possible causes"
possible_causes(session_id, k, bl) ==
    LET recent_maneuver ==
            \E r \in DOMAIN maneuvers :
                /\ maneuvers[r].session_id = session_id
                /\ maneuvers[r].data.start_ts <= k.ts
                /\ maneuvers[r].data.end_ts >= k.ts - 10
        twa == Abs(The(k.twa))
        causes ==
            (IF recent_maneuver THEN <<"Speed loss from recent tack/gybe">> ELSE <<>>)
            \o (IF twa < 35 THEN <<"Sailing too close to wind (pinching)">>
                ELSE IF twa > 50 /\ bl.bin.twa_max <= 70 THEN <<"Sailing too low (footing)">>
                ELSE <<>>)
            \o (IF The(k.tws) < bl.bin.tws_min + 2
                THEN <<"Wind speed below normal for conditions">> ELSE <<>>)
    IN  IF causes = <<>> THEN <<"Unknown - review sail trim and technique">> ELSE causes

\* The loop without the "std_sog == 0" guard, the division giving an
\* unboundedly negative z_score for a slower point.
RECURSIVE anomaly_rows_unguarded(_, _, _, _)
anomaly_rows_unguarded(bls, session_id, z_threshold, i) ==
    IF i > Len(KindSeq) THEN <<>>
    ELSE LET k == KindSeq[i]
             rest == anomaly_rows_unguarded(bls, session_id, z_threshold, i + 1)
         IN  IF ~has_wind_and_moves(k) \/ windpts[session_id][k] = 0 THEN rest
             ELSE LET mb == matching_baseline(bls, k)
                  IN  IF mb = None THEN rest
                      ELSE IF ~z_below_minus(k, The(mb), z_threshold) THEN rest
                      ELSE <<[session_id      |-> session_id,
                              point           |-> k,
                              copies          |-> windpts[session_id][k],
                              actual_sog      |-> k.sog,
                              expected_sog    |-> The(mb).avg_sog,
                              deviation_kts   |-> deviation(k, The(mb)),
                              std_sog         |-> The(mb).std_sog,
                              severity        |-> severity_of(k, The(mb)),
                              possible_causes |-> possible_causes(session_id, k, The(mb))]>>
                           \o rest

\* The loop over the session's points, from the kind at index i on: the
\* PerformanceAnomaly rows added.  The points of one kind get rows that differ
\* only in their trackpoint id; they are kept as one entry with their number.
RECURSIVE anomaly_rows(_, _, _, _)
anomaly_rows(bls, session_id, z_threshold, i) ==
    IF i > Len(KindSeq) THEN <<>>
    ELSE LET k == KindSeq[i]
             rest == anomaly_rows(bls, session_id, z_threshold, i + 1)
         IN  IF ~has_wind_and_moves(k) \/ windpts[session_id][k] = 0 THEN rest
             ELSE LET mb == matching_baseline(bls, k)
                  IN  IF mb = None THEN rest
                      ELSE IF The(mb).std_sog.sq_num = 0 THEN rest
                      ELSE IF ~z_below_minus(k, The(mb), z_threshold) THEN rest
                      ELSE <<[session_id      |-> session_id,
                              point           |-> k,
                              copies          |-> windpts[session_id][k],
                              actual_sog      |-> k.sog,
                              expected_sog    |-> The(mb).avg_sog,
                              deviation_kts   |-> deviation(k, The(mb)),
                              std_sog         |-> The(mb).std_sog,
                              severity        |-> severity_of(k, The(mb)),
                              possible_causes |-> possible_causes(session_id, k, The(mb))]>>
                           \o rest

\* POST /anomalies/detect/{session_id}, run in one piece.
detect_anomalies(session_id, z_threshold) ==
    IF session_id \notin SessionIds
    THEN /\ reply' = {[op |-> "detect_anomalies", error |-> "Session not found"]}
         /\ clock' = clock + 1
         /\ UNCHANGED <<windpts, baselines, anomalies, procs>>
    ELSE LET boat_id == boat_of_session(session_id)
             baselines_count == Len(boat_baselines(baselines, boat_id))
             rows == IF baselines_count = 0
                     THEN commit_writes(baselines,
                                        baseline_writes(baselines, boat_id, FALSE, clock + 1))
                     ELSE baselines
             bls == boat_baselines(rows, boat_id)
             found == anomaly_rows(bls, session_id, z_threshold, 1)
         IN  /\ baselines' = rows
             /\ clock' = clock + 1
             /\ IF bls = <<>>
                THEN /\ reply' = {[op |-> "detect_anomalies", session_id |-> session_id,
                                   message |-> "Insufficient data to establish performance baselines"]}
                     /\ UNCHANGED anomalies
                ELSE /\ anomalies' = anomalies \o found
                     /\ reply' = {[op |-> "detect_anomalies", session_id |-> session_id,
                                   anomalies_detected |-> sum_seq([a \in DOMAIN found |-> found[a].copies])]}
             /\ UNCHANGED <<windpts, procs>>

\* POST /baselines/calculate/{boat_id}, run in one piece.
calculate_baselines(boat_id) ==
    LET writes == baseline_writes(baselines, boat_id, TRUE, clock + 1)
    IN  /\ baselines' = commit_writes(baselines, writes)
        /\ clock' = clock + 1
        /\ reply' = {[op |-> "calculate_baselines", boat_id |-> boat_id,
                     baselines_created |-> created_count(writes)]}
        /\ UNCHANGED <<windpts, anomalies, procs>>

\* ------------------------------------- baselines and anomalies: specifications

MaxCalls == 3

\* How many points of each kind (in the order of KindSeq) session 1 may hold.
CountChoices == <<{0, 9, 10}, {0, 1}, {0, 9, 10}, {0, 1}, {0, 1}, {0, 1}>>

NoPoints == [k \in Kinds |-> 0]

KindIndex(k) == CHOOSE i \in DOMAIN KindSeq : KindSeq[i] = k

WindChoices ==
    {c \in [Kinds -> {0, 1, 9, 10}] : \A k \in Kinds : c[k] \in CountChoices[KindIndex(k)]}

\* z_threshold of detect_anomalies, in tenths: the default 2.0, and -1.0 (the
\* parameter is any float).
ZThresholds == {20, -10}

\* The kinds of point that arrive after the session has started.
IngestKinds == {KindSeq[2]}

MaxIngest == 1

InitBaseline ==
    /\ PreIdle
    /\ ManIdle
    /\ TacIdle
    /\ windpts \in {[sid \in SessionIds |-> IF sid = 1 THEN c ELSE NoPoints] : c \in WindChoices}
    /\ baselines = <<>>
    /\ anomalies = <<>>
    /\ clock = 0
    /\ procs = <<>>
    /\ reply = {}

DetectAnomalies ==
    \E sid \in SessionIds \cup {3} : \E z \in ZThresholds :
        /\ clock < MaxCalls
        /\ detect_anomalies(sid, z)
        /\ UNCHANGED preVars
        /\ UNCHANGED manVars
        /\ UNCHANGED tacVars

CalculateBaselines ==
    \E boat_id \in BoatIds :
        /\ clock < MaxCalls
        /\ calculate_baselines(boat_id)
        /\ UNCHANGED preVars
        /\ UNCHANGED manVars
        /\ UNCHANGED tacVars

\* POST /ingest of one point, for a session that holds fewer than MaxIngest
\* points of its kind.
Ingest ==
    \E sid \in {1} : \E k \in IngestKinds :
        /\ windpts[sid][k] < MaxIngest
        /\ windpts' = [windpts EXCEPT ![sid][k] = @ + 1]
        /\ reply' = {[op |-> "ingest", ingested |-> 1]}
        /\ UNCHANGED <<baselines, anomalies, clock, procs>>
        /\ UNCHANGED preVars
        /\ UNCHANGED manVars
        /\ UNCHANGED tacVars

NextBaseline == DetectAnomalies \/ CalculateBaselines \/ Ingest

SpecBaseline == InitBaseline /\ [][NextBaseline]_vars

\* ------------------------------------- concurrent requests: specification
\*
\* Two requests served at once, each with its own SessionLocal().  A request
\* takes a step at each statement that reads or writes the database; what it
\* has added or changed is in its own session until its db.commit(), and its
\* queries return committed rows.

ProcIds == {1, 2}

idle_proc ==
    [pc |-> "idle", op |-> "none", session_id |-> 0, boat_id |-> 0,
     force_recalc |-> FALSE, calculated |-> FALSE, k |-> 0, staged |-> <<>>]

\* The first bin from k on that is not passed over by "continue"; NBins when
\* there is none.
RECURSIVE next_bin(_, _)
next_bin(boat_id, k) ==
    IF k >= NBins THEN NBins
    ELSE IF has_enough_points(bin_points(boat_id, bin_at(k))) THEN k
    ELSE next_bin(boat_id, k + 1)

\* How many points of each kind session 1 may hold.
RaceCountChoices == <<{9, 10}, {0, 1}, {0, 10}, {0}, {0}, {0}>>

RaceWindChoices ==
    {c \in [Kinds -> {0, 1, 9, 10}] : \A k \in Kinds : c[k] \in RaceCountChoices[KindIndex(k)]}

InitRace ==
    /\ PreIdle
    /\ ManIdle
    /\ TacIdle
    /\ windpts \in {[sid \in SessionIds |-> IF sid = 1 THEN c ELSE NoPoints] : c \in RaceWindChoices}
    /\ baselines = <<>>
    /\ anomalies = <<>>
    /\ clock = 0
    /\ procs = [p \in ProcIds |-> idle_proc]
    /\ reply = {}

\* detect_anomalies up to "Get session info"
BeginDetectAnomalies ==
    \E p \in ProcIds : \E sid \in SessionIds \cup {3} :
        /\ procs[p].pc = "idle"
        /\ clock' = clock + 1
        /\ IF sid \notin SessionIds
           THEN /\ procs' = [procs EXCEPT ![p] = [idle_proc EXCEPT !.pc = "done", !.op = "detect_anomalies",
                                                                  !.session_id = sid]]
                /\ reply' = reply \cup {[op |-> "detect_anomalies", error |-> "Session not found"]}
           ELSE /\ procs' = [procs EXCEPT ![p] = [idle_proc EXCEPT !.pc = "count", !.op = "detect_anomalies",
                                                                  !.session_id = sid,
                                                                  !.boat_id = boat_of_session(sid)]]
                /\ UNCHANGED reply
        /\ UNCHANGED <<windpts, baselines, anomalies>>
        /\ UNCHANGED preVars
        /\ UNCHANGED manVars
        /\ UNCHANGED tacVars

\* calculate_baselines up to the queries of the boat's sessions and points
BeginCalculateBaselines ==
    \E p \in ProcIds : \E boat_id \in BoatIds :
        /\ procs[p].pc = "idle"
        /\ clock' = clock + 1
        /\ IF sessions_of_boat(boat_id) = {}
           THEN /\ procs' = [procs EXCEPT ![p] = [idle_proc EXCEPT !.pc = "done", !.op = "calculate_baselines",
                                                                  !.boat_id = boat_id, !.force_recalc = TRUE]]
                /\ reply' = reply \cup {[op |-> "calculate_baselines", boat_id |-> boat_id,
                                         baselines_created |-> 0]}
           ELSE /\ procs' = [procs EXCEPT ![p] = [idle_proc EXCEPT !.pc = "bins", !.op = "calculate_baselines",
                                                                  !.boat_id = boat_id, !.force_recalc = TRUE,
                                                                  !.calculated = TRUE,
                                                                  !.k = next_bin(boat_id, 0)]]
                /\ UNCHANGED reply
        /\ UNCHANGED <<windpts, baselines, anomalies>>
        /\ UNCHANGED preVars
        /\ UNCHANGED manVars
        /\ UNCHANGED tacVars

\* detect_anomalies: baselines_count, and the entry into
\* calculate_baseline_for_boat when it is 0
CountBaselines ==
    \E p \in ProcIds :
        /\ procs[p].pc = "count"
        /\ IF Len(boat_baselines(baselines, procs[p].boat_id)) = 0
           THEN procs' = [procs EXCEPT ![p].pc = "bins", ![p].calculated = TRUE,
                                       ![p].k = next_bin(procs[p].boat_id, 0)]
           ELSE procs' = [procs EXCEPT ![p].pc = "load"]
        /\ UNCHANGED <<windpts, baselines, anomalies, clock, reply>>
        /\ UNCHANGED preVars
        /\ UNCHANGED manVars
        /\ UNCHANGED tacVars

\* calculate_baseline_for_boat: the iteration for the next bin with enough
\* points, its query for the existing row included
CheckExisting ==
    \E p \in ProcIds :
        /\ procs[p].pc = "bins"
        /\ procs[p].k < NBins
        /\ procs' = [procs EXCEPT
                        ![p].staged = @ \o stage_bin(baselines, procs[p].boat_id, procs[p].force_recalc,
                                                     clock, bin_at(procs[p].k)),
                        ![p].k = next_bin(procs[p].boat_id, procs[p].k + 1)]
        /\ UNCHANGED <<windpts, baselines, anomalies, clock, reply>>
        /\ UNCHANGED preVars
        /\ UNCHANGED manVars
        /\ UNCHANGED tacVars

\* calculate_baseline_for_boat: db.commit() and the return
CommitBaselines ==
    \E p \in ProcIds :
        /\ procs[p].pc = "bins"
        /\ procs[p].k >= NBins
        /\ baselines' = commit_writes(baselines, procs[p].staged)
        /\ IF procs[p].op = "calculate_baselines"
           THEN /\ procs' = [procs EXCEPT ![p].pc = "done"]
                /\ reply' = reply \cup {[op |-> "calculate_baselines", boat_id |-> procs[p].boat_id,
                                         baselines_created |-> created_count(procs[p].staged)]}
           ELSE /\ procs' = [procs EXCEPT ![p].pc = "load"]
                /\ UNCHANGED reply
        /\ UNCHANGED <<windpts, anomalies, clock>>
        /\ UNCHANGED preVars
        /\ UNCHANGED manVars
        /\ UNCHANGED tacVars

\* detect_anomalies from "Get all baselines for this boat" to its return
AnalyzeSession ==
    \E p \in ProcIds :
        /\ procs[p].pc = "load"
        /\ LET bls == boat_baselines(baselines, procs[p].boat_id)
               found == anomaly_rows(bls, procs[p].session_id, 20, 1)
           IN  IF bls = <<>>
               THEN /\ reply' = reply \cup
                           {[op |-> "detect_anomalies", session_id |-> procs[p].session_id,
                             message |-> "Insufficient data to establish performance baselines"]}
                    /\ UNCHANGED anomalies
               ELSE /\ anomalies' = anomalies \o found
                    /\ reply' = reply \cup
                           {[op |-> "detect_anomalies", session_id |-> procs[p].session_id,
                             anomalies_detected |-> sum_seq([a \in DOMAIN found |-> found[a].copies])]}
        /\ procs' = [procs EXCEPT ![p].pc = "done"]
        /\ UNCHANGED <<windpts, baselines, clock>>
        /\ UNCHANGED preVars
        /\ UNCHANGED manVars
        /\ UNCHANGED tacVars

NextRace ==
    \/ BeginDetectAnomalies
    \/ BeginCalculateBaselines
    \/ CountBaselines
    \/ CheckExisting
    \/ CommitBaselines
    \/ AnalyzeSession

SpecRace == InitRace /\ [][NextRace]_vars

\* ------------------------------------------------------- baselines: claims

rows_of_bin(rows, boat_id, b) ==
    {r \in DOMAIN rows : rows[r].boat_id = boat_id /\ rows[r].bin = b}

\* C4: after any sequence of baseline calculations for a boat, automatic and
\* manual, the store holds at most one PerformanceBaseline row per (boat,
\* wind-speed bin, wind-angle bin).
C4_AtMostOneRowPerBin ==
    \A boat_id \in BoatIds : \A k \in 0 .. NBins - 1 :
        Cardinality(rows_of_bin(baselines, boat_id, bin_at(k))) <= 1

\* The step ran calculate_baseline_for_boat(boat_id): the manual endpoint, or
\* detect_anomalies for a session of a boat that had no baseline.
calculation_ran(boat_id) ==
    \E rp \in reply' :
        \/ rp.op = "calculate_baselines" /\ rp.boat_id = boat_id
        \/ /\ rp.op = "detect_anomalies"
           /\ "session_id" \in DOMAIN rp
           /\ boat_of_session(rp.session_id) = boat_id
           /\ boat_baselines(baselines, boat_id) = <<>>

\* The speeds of the boat's points that have tws and twa, sog > 0.5, and wind
\* in the bin: their number, their sum and the sum of their squares.
qualifying(boat_id, b) ==
    LET ks == {k \in Kinds : /\ k.tws # None /\ k.twa # None /\ k.sog > 5
                             /\ b.tws_min <= The(k.tws) /\ The(k.tws) < b.tws_max
                             /\ b.twa_min <= Abs(The(k.twa)) /\ Abs(The(k.twa)) < b.twa_max}
        cnt == [k \in ks |-> sum_over(sessions_of_boat(boat_id),
                                      [sid \in SessionIds |-> windpts[sid][k]])]
    IN  [n      |-> sum_over(ks, cnt),
         sum    |-> sum_over(ks, [k \in ks |-> cnt[k] * k.sog]),
         sum_sq |-> sum_over(ks, [k \in ks |-> cnt[k] * k.sog * k.sog])]

\* C10: one call of calculate_baseline_for_boat creates or updates the baseline
\* of a bin if and only if at least 10 qualifying points of the boat fall in
\* it, and the row written holds their count, their mean and their population
\* standard deviation (variance = E[s^2] - E[s]^2).
C10_BaselineIffTenQualifyingPoints ==
    [][\A boat_id \in BoatIds :
          calculation_ran(boat_id) =>
              \A k \in 0 .. NBins - 1 :
                  LET q == qualifying(boat_id, bin_at(k))
                      written == {r \in rows_of_bin(baselines', boat_id, bin_at(k)) :
                                      baselines'[r].last_updated = clock'}
                  IN  /\ (written # {}) <=> (q.n >= 10)
                      /\ Cardinality(written) <= 1
                      /\ \A r \in written :
                            /\ baselines'[r].sample_count = q.n
                            /\ baselines'[r].avg_sog.num = q.sum
                            /\ baselines'[r].avg_sog.den = q.n
                            /\ baselines'[r].std_sog.den = q.n
                            /\ baselines'[r].std_sog.sq_num = q.n * q.sum_sq - q.sum * q.sum]_vars

\* Ten points at 10 kn in one bin, nine points in another, and one calculation
\* done: one baseline, avg_sog 10 (the sum 100.0 kn over 10), std_sog 0.
C10_Witness ==
    /\ windpts[1][KindSeq[1]] = 10
    /\ windpts[1][KindSeq[2]] = 0
    /\ windpts[1][KindSeq[3]] = 9
    /\ clock = 1
    /\ Len(baselines) = 1
    /\ baselines[1].bin = [tws_min |-> 6, tws_max |-> 12, twa_min |-> 50, twa_max |-> 70]
    /\ baselines[1].sample_count = 10
    /\ baselines[1].avg_sog = [num |-> 1000, den |-> 10]
    /\ baselines[1].std_sog.sq_num = 0

\* C5: when two baseline calculations for the same boat have run concurrently
\* to their end, the store is the one a single calculation leaves: one row for
\* every bin with at least 10 points, none for the others, each row holding
\* the statistics of the boat's history.  Stated of the automatic calculations
\* of two detect_anomalies requests: both run only when the second counted the
\* boat's baselines before the first committed, so they overlapped.
C5_ConcurrentCalculationsLastWriterWins ==
    \A boat_id \in BoatIds :
        (\A p \in DOMAIN procs : /\ procs[p].pc = "done"
                                 /\ procs[p].calculated
                                 /\ ~procs[p].force_recalc
                                 /\ procs[p].boat_id = boat_id)
        => \A k \in 0 .. NBins - 1 :
              LET q == qualifying(boat_id, bin_at(k))
                  rs == rows_of_bin(baselines, boat_id, bin_at(k))
              IN  /\ Cardinality(rs) = (IF q.n >= 10 THEN 1 ELSE 0)
                  /\ \A r \in rs : /\ baselines[r].sample_count = q.n
                                   /\ baselines[r].avg_sog = [num |-> q.sum, den |-> q.n]

\* ------------------------------------------------------- anomalies: claims

\* The step ran detect_anomalies for the (existing) session to its end.
detection_ran(session_id) ==
    /\ clock' = clock + 1
    /\ \E rp \in reply' : /\ rp.op = "detect_anomalies"
                          /\ "session_id" \in DOMAIN rp
                          /\ rp.session_id = session_id

\* The PerformanceAnomaly rows the step added.
added_anomalies == SubSeq(anomalies', Len(anomalies) + 1, Len(anomalies'))

\* The baseline a point is compared with: the boat's first row (in the order of
\* the table after the step) whose wind ranges hold the point.
first_match(boat_id, k) ==
    LET hits == {r \in DOMAIN baselines' :
                    /\ baselines'[r].boat_id = boat_id
                    /\ baselines'[r].bin.tws_min <= The(k.tws)
                    /\ The(k.tws) < baselines'[r].bin.tws_max
                    /\ baselines'[r].bin.twa_min <= Abs(The(k.twa))
                    /\ Abs(The(k.twa)) < baselines'[r].bin.twa_max}
    IN  IF hits = {} THEN {} ELSE {baselines'[CHOOSE r \in hits : \A q \in hits : r <= q]}

\* The points of the session that are compared with a baseline at all.
compared(session_id) ==
    {k \in Kinds : windpts[session_id][k] > 0 /\ k.tws # None /\ k.twa # None /\ k.sog > 5}

\* C11: detect_anomalies never flags a point whose matching baseline has
\* std_sog = 0: whatever the point's speed, the request ends with its count of
\* anomalies and writes no PerformanceAnomaly for the point.
C11_ZeroSpreadBaselineNeverFlags ==
    [][\A sid \in SessionIds :
          detection_ran(sid) =>
              \A k \in compared(sid) :
                  \A bl \in first_match(boat_of_session(sid), k) :
                      bl.std_sog.sq_num = 0 =>
                          /\ \A a \in DOMAIN added_anomalies : added_anomalies[a].point # k
                          /\ \A rp \in reply' : "error" \notin DOMAIN rp]_vars

\* A baseline of ten points at 10.0 kn (std_sog 0), a later point of the bin
\* at 4.0 kn, and a detection that has written nothing.
C11_Witness ==
    /\ windpts[1][KindSeq[1]] = 10
    /\ windpts[1][KindSeq[2]] = 1
    /\ Len(baselines) = 1
    /\ baselines[1].avg_sog = [num |-> 1000, den |-> 10]
    /\ baselines[1].std_sog.sq_num = 0
    /\ in_bin(KindSeq[2], baselines[1].bin)
    /\ reply = {[op |-> "detect_anomalies", session_id |-> 1, anomalies_detected |-> 0]}
    /\ anomalies = <<>>
    /\ clock = 2

\* z < -c / 10 for z = num / sqrt(sq_num), sq_num > 0
z_less_than_minus(num, sq_num, c) ==
    IF c >= 0 THEN num < 0 /\ 100 * num * num > c * c * sq_num
    ELSE num < 0 \/ 100 * num * num < c * c * sq_num

\* z >= -c / 10, c >= 0
z_at_least_minus(num, sq_num, c) == num >= 0 \/ 100 * num * num <= c * c * sq_num

\* The point has a z-score and it is below -z_threshold.
below_threshold(session_id, k, z_threshold) ==
    /\ k \in compared(session_id)
    /\ \E bl \in first_match(boat_of_session(session_id), k) :
          /\ bl.std_sog.sq_num # 0
          /\ z_less_than_minus(k.sog * bl.avg_sog.den - bl.avg_sog.num, bl.std_sog.sq_num,
                               z_threshold)

\* C12: detect_anomalies writes exactly one PerformanceAnomaly for a point
\* exactly when z = (sog - avg_sog) / std_sog < -z_threshold; every anomaly
\* written has z < 0, and is 'severe' when z < -3.0, 'moderate' when
\* -3.0 <= z < -2.5, 'minor' when -2.5 <= z.
C12_AnomalyIffBelowThresholdAndSlower ==
    [][\A sid \in SessionIds :
          detection_ran(sid) =>
              /\ \E z_threshold \in ZThresholds :
                    \A k \in Kinds :
                        LET rows == {a \in DOMAIN added_anomalies : added_anomalies[a].point = k}
                        IN  IF below_threshold(sid, k, z_threshold)
                            THEN /\ Cardinality(rows) = 1
                                 /\ \A a \in rows : added_anomalies[a].copies = windpts[sid][k]
                            ELSE rows = {}
              /\ \A a \in DOMAIN added_anomalies :
                    LET num == added_anomalies[a].deviation_kts.num
                        sq == added_anomalies[a].std_sog.sq_num
                    IN  /\ added_anomalies[a].session_id = sid
                        /\ num < 0
                        /\ added_anomalies[a].severity =
                              (IF z_less_than_minus(num, sq, 30) THEN "severe"
                               ELSE IF z_less_than_minus(num, sq, 25) THEN "moderate"
                               ELSE "minor")]_vars

\* ------------------------------------------------------------ VMG Optimizer
\*
\* The optimizer reads the same trackpoints table; here a kind of point is
\* [tws, twa, sog] (wind speed in knots, angle in degrees, speed in tenths of a
\* knot) and windpts gives how many points of each kind a session holds.  VMG
\* is in units of 0.0001 kn: sog in tenths times the cosine in thousandths.
\* training_accuracy (the R2 of a ridge regression) is not modelled.

VPoint(tws, twa, sog) == [tws |-> tws, twa |-> twa, sog |-> sog]

VKindSeq == <<VPoint(Some(8), Some(40), 60), VPoint(Some(8), Some(-42), 60),
              VPoint(Some(8), Some(45), 70), VPoint(Some(8), Some(150), 50),
              VPoint(Some(8), Some(135), 50), VPoint(Some(3), Some(40), 30),
              VPoint(Some(8), Some(0), 60)>>

VKinds == {VKindSeq[k] : k \in DOMAIN VKindSeq}

\* math.cos(math.radians(a)) in thousandths, for the angles that occur
cos_milli(a) ==
    CASE a = 0 -> 1000 [] a = 30 -> 866 [] a = 40 -> 766 [] a = 42 -> 743 [] a = 45 -> 707
      [] a = 52 -> 616 [] a = 135 -> -707 [] a = 150 -> -866

\* calculate_vmg_from_point: None when twa, tws or sog is missing or zero
calculate_vmg_from_point(k) ==
    IF k.twa = None \/ k.tws = None THEN None
    ELSE IF The(k.twa) = 0 \/ The(k.tws) = 0 \/ k.sog = 0 THEN None
    ELSE Some(k.sog * cos_milli(Abs(The(k.twa))))

\* The points query: how many points of each kind with tws, twa and sog > 1.0
\* the boat's sessions hold.
vmg_points(boat_id) ==
    [k \in {x \in VKinds : x.tws # None /\ x.twa # None /\ x.sog > 10} |->
        sum_over(sessions_of_boat(boat_id), [sid \in SessionIds |-> windpts[sid][k]])]

\* df: the points that have a VMG
vmg_frame(pts) ==
    [k \in {x \in DOMAIN pts : calculate_vmg_from_point(x) # None} |-> pts[k]]

\* len(frame)
frame_len(df) == sum_over(DOMAIN df, df)

\* df[(df['tws'] >= tws_min) & (df['tws'] < tws_max)]
tws_range(df, tws_min, tws_max) ==
    [k \in {x \in DOMAIN df : The(x.tws) >= tws_min /\ The(x.tws) < tws_max} |-> df[k]]

\* bin_df[bin_df['twa'] < 90], twa being abs(p.twa)
upwind_part(df) == [k \in {x \in DOMAIN df : Abs(The(x.twa)) < 90} |-> df[k]]

\* bin_df[bin_df['twa'] >= 90]
downwind_part(df) == [k \in {x \in DOMAIN df : Abs(The(x.twa)) >= 90} |-> df[k]]

\* (twa / 5).round() * 5 for a whole number of degrees
twa_bin(a) == 5 * ((2 * a + 5) \div 10)

\* groupby('twa_bin')['vmg'].agg(['mean', 'count']): per angle-bin holding a
\* point, the sum of the VMGs and the count
vmg_by_angle(df) ==
    LET present == {k \in DOMAIN df : df[k] > 0}
    IN  [a \in {twa_bin(Abs(The(k.twa))) : k \in present} |->
            LET ks == {k \in present : twa_bin(Abs(The(k.twa))) = a}
            IN  [sum   |-> sum_over(ks, [k \in ks |-> df[k] * The(calculate_vmg_from_point(k))]),
                 count |-> sum_over(ks, [k \in ks |-> df[k]])]]

\* The angle-bins kept whatever their count.
angle_bins_any_count(by_angle) == DOMAIN by_angle

\* vmg_by_angle[vmg_by_angle['count'] >= 3]
angle_bins_kept(by_angle) == {a \in DOMAIN by_angle : by_angle[a].count >= 3}

\* ['mean'].idxmax(): the lowest of the angle-bins with the highest mean
best_angle(by_angle, kept) ==
    CHOOSE a \in kept :
        /\ \A b \in kept : by_angle[a].sum * by_angle[b].count >= by_angle[b].sum * by_angle[a].count
        /\ \A b \in kept :
              by_angle[a].sum * by_angle[b].count = by_angle[b].sum * by_angle[a].count => a <= b

no_optimum == [angle |-> None, vmg |-> None, samples |-> 0]

\* The block for one direction (upwind_df or downwind_df): the optimal angle,
\* its mean VMG and the sample count.
direction_optimum(part) ==
    IF frame_len(part) >= 10
    THEN LET by_angle == vmg_by_angle(part)
             kept == angle_bins_kept(by_angle)
         IN  IF kept # {}
             THEN LET a == best_angle(by_angle, kept)
                  IN  [angle   |-> Some(a),
                       vmg     |-> Some([num |-> by_angle[a].sum, den |-> by_angle[a].count]),
                       samples |-> frame_len(part)]
             ELSE no_optimum
    ELSE no_optimum

\* No row is ever found.
existing_vmg_never(rows, boat_id, tws_min, tws_max) == None

\* db.query(VMGOptimization).filter(boat_id, tws_min, tws_max).first()
existing_vmg(rows, boat_id, tws_min, tws_max) ==
    LET hits == {r \in DOMAIN rows : /\ rows[r].boat_id = boat_id
                                     /\ rows[r].tws_min = tws_min
                                     /\ rows[r].tws_max = tws_max}
    IN  IF hits = {} THEN None
        ELSE Some(CHOOSE r \in hits : \A q \in hits : r <= q)

\* The loop body for one wind-speed bin, over the table as it stands: the
\* table after it and the entries appended to results.
optimize_bin(rows, boat_id, df, now, tws_min, tws_max) ==
    LET bin_df == tws_range(df, tws_min, tws_max)
        up == direction_optimum(upwind_part(bin_df))
        down == direction_optimum(downwind_part(bin_df))
        existing == existing_vmg(rows, boat_id, tws_min, tws_max)
        metadata == [total_points    |-> frame_len(bin_df),
                     upwind_points   |-> frame_len(upwind_part(bin_df)),
                     downwind_points |-> frame_len(downwind_part(bin_df))]
        result == [tws_min |-> tws_min, tws_max |-> tws_max,
                   upwind_angle |-> up.angle, downwind_angle |-> down.angle]
    IN  IF frame_len(bin_df) < 20 THEN [rows |-> rows, results |-> <<>>]
        ELSE IF up.angle = None /\ down.angle = None THEN [rows |-> rows, results |-> <<>>]
        ELSE IF existing # None
        THEN LET old == rows[The(existing)]
                 with_up == IF up.angle # None
                            THEN [old EXCEPT !.optimal_upwind_angle = up.angle,
                                             !.upwind_vmg = up.vmg,
                                             !.upwind_sample_count = up.samples]
                            ELSE old
                 with_down == IF down.angle # None
                              THEN [with_up EXCEPT !.optimal_downwind_angle = down.angle,
                                                   !.downwind_vmg = down.vmg,
                                                   !.downwind_sample_count = down.samples]
                              ELSE with_up
             IN  [rows    |-> [rows EXCEPT ![The(existing)] =
                                  [with_down EXCEPT !.last_trained = now,
                                                    !.training_metadata = metadata]],
                  results |-> <<result>>]
        ELSE [rows    |-> Append(rows,
                            [id |-> Len(rows) + 1,
                             boat_id |-> boat_id,
                             tws_min |-> tws_min,
                             tws_max |-> tws_max,
                             optimal_upwind_angle |-> up.angle,
                             upwind_vmg |-> up.vmg,
                             upwind_sample_count |-> up.samples,
                             optimal_downwind_angle |-> down.angle,
                             downwind_vmg |-> down.vmg,
                             downwind_sample_count |-> down.samples,
                             model_version |-> "v1",
                             last_trained |-> now,
                             training_metadata |-> metadata]),
              results |-> <<result>>]

\* The loop over tws_bins from the bin at index i on.
RECURSIVE optimize_bins(_, _, _, _, _)
optimize_bins(rows, boat_id, df, now, i) ==
    IF i > Len(tws_bins) THEN [rows |-> rows, results |-> <<>>]
    ELSE LET this == optimize_bin(rows, boat_id, df, now, tws_bins[i][1], tws_bins[i][2])
             rest == optimize_bins(this.rows, boat_id, df, now, i + 1)
         IN  [rows |-> rest.rows, results |-> this.results \o rest.results]

\* POST /vmg/optimize/{boat_id}
optimize_vmg_for_boat(boat_id) ==
    /\ clock' = clock + 1
    /\ IF sessions_of_boat(boat_id) = {}
       THEN /\ reply' = {[op |-> "optimize_vmg", error |-> "No sessions found for this boat"]}
            /\ UNCHANGED vmgopts
       ELSE LET points == vmg_points(boat_id)
            IN  IF frame_len(points) < 50
                THEN /\ reply' = {[op |-> "optimize_vmg",
                                   error |-> "Insufficient data for VMG optimization (need at least 50 points)"]}
                     /\ UNCHANGED vmgopts
                ELSE LET df == vmg_frame(points)
                         done == optimize_bins(vmgopts, boat_id, df, clock + 1, 1)
                     IN  /\ vmgopts' = done.rows
                         /\ reply' = {[op |-> "optimize_vmg", boat_id |-> boat_id,
                                       optimizations_created |-> Len(done.results),
                                       total_data_points |-> frame_len(df),
                                       results |-> done.results]}
    /\ UNCHANGED <<windpts, baselines, anomalies, procs>>
    /\ UNCHANGED <<shifts, patterns, recs>>
    /\ UNCHANGED preVars
    /\ UNCHANGED manVars

\* ------------------------------------------------ VMG optimizer: specification

MaxVmgRuns == 2

\* How many points of each kind (in the order of VKindSeq) session 1 may hold:
\* before and after a later upload.
VCountChoices == <<{6, 7}, {0, 1}, {2, 3}, {7, 8}, {2, 3}, {28, 30}, {0, 1}>>

VKindIndex(k) == CHOOSE i \in DOMAIN VKindSeq : VKindSeq[i] = k

VWindChoices ==
    {[k \in VKinds |-> t[VKindIndex(k)]] :
        t \in VCountChoices[1] \X VCountChoices[2] \X VCountChoices[3] \X VCountChoices[4]
               \X VCountChoices[5] \X VCountChoices[6] \X VCountChoices[7]}

InitVmg ==
    /\ PreIdle
    /\ ManIdle
    /\ windpts \in {[sid \in SessionIds |-> IF sid = 1 THEN c ELSE [k \in VKinds |-> 0]] :
                       c \in VWindChoices}
    /\ baselines = <<>>
    /\ anomalies = <<>>
    /\ clock = 0
    /\ procs = <<>>
    /\ reply = {}
    /\ TacIdle

OptimizeVmg ==
    \E boat_id \in BoatIds : clock < MaxVmgRuns /\ optimize_vmg_for_boat(boat_id)

\* POST /ingest of further points of one kind.
IngestMore ==
    \E k \in VKinds : \E n \in VCountChoices[VKindIndex(k)] :
        /\ n > windpts[1][k]
        /\ windpts' = [windpts EXCEPT ![1][k] = n]
        /\ reply' = {[op |-> "ingest", ingested |-> n - windpts[1][k]]}
        /\ UNCHANGED <<baselines, anomalies, clock, procs>>
        /\ UNCHANGED tacVars
        /\ UNCHANGED preVars
        /\ UNCHANGED manVars

NextVmg == OptimizeVmg \/ IngestMore

SpecVmg == InitVmg /\ [][NextVmg]_vars

\* ------------------------------------------------------ VMG optimizer: claims

\* How many points of the boat's sessions have a VMG (tws and twa present and
\* not 0, sog > 1.0), a wind speed in [tws_min, tws_max) and an absolute wind
\* angle in angles.
vmg_samples(boat_id, tws_min, tws_max, angles) ==
    LET ks == {k \in VKinds : /\ k.tws # None /\ k.twa # None /\ k.sog > 10
                              /\ The(k.tws) # 0 /\ The(k.twa) # 0
                              /\ The(k.tws) >= tws_min /\ The(k.tws) < tws_max
                              /\ Abs(The(k.twa)) \in angles}
    IN  sum_over(ks, [k \in ks |->
            sum_over(sessions_of_boat(boat_id), [sid \in SessionIds |-> windpts[sid][k]])])

\* The whole degrees that round to the 5-degree angle-bin a, on one side of 90.
angles_of_bin(a, upwind) ==
    {d \in 0 .. 180 : /\ 2 * d >= 2 * a - 5 /\ 2 * d < 2 * a + 5
                      /\ (upwind <=> d < 90)}

\* C13: optimize_vmg_for_boat never selects as optimum an angle-bin holding
\* fewer than 3 samples, and never creates or updates a VMGOptimization for a
\* wind-speed bin holding fewer than 20 points.
C13_NoOptimumFromFewSamples ==
    [][\A rp \in reply' :
          (clock' = clock + 1 /\ rp.op = "optimize_vmg" /\ "results" \in DOMAIN rp) =>
              /\ \A r \in DOMAIN vmgopts' :
                    (r \notin DOMAIN vmgopts \/ vmgopts'[r] # vmgopts[r]) =>
                        vmg_samples(vmgopts'[r].boat_id, vmgopts'[r].tws_min,
                                    vmgopts'[r].tws_max, 0 .. 180) >= 20
              /\ \A x \in DOMAIN rp.results :
                    LET res == rp.results[x]
                    IN  /\ \A a \in res.upwind_angle :
                              vmg_samples(rp.boat_id, res.tws_min, res.tws_max,
                                          angles_of_bin(a, TRUE)) >= 3
                        /\ \A a \in res.downwind_angle :
                              vmg_samples(rp.boat_id, res.tws_min, res.tws_max,
                                          angles_of_bin(a, FALSE)) >= 3
                        /\ vmg_samples(rp.boat_id, res.tws_min, res.tws_max, 0 .. 180) >= 20]_vars

\* A run that chose the 40-degree bin for 6-12 kn of wind although the two
\* samples at 45 degrees have the better mean VMG.
C13_Witness ==
    /\ windpts[1][VKindSeq[3]] = 2
    /\ \E rp \in reply :
          /\ rp.op = "optimize_vmg"
          /\ "results" \in DOMAIN rp
          /\ \E x \in DOMAIN rp.results :
                /\ rp.results[x].tws_min = 6
                /\ rp.results[x].upwind_angle = Some(40)

\* C14: after any sequence of optimize_vmg_for_boat runs over a growing
\* history, a VMGOptimization row has its upwind (downwind) optimal angle and
\* VMG populated only if at least 10 upwind (downwind) points exist in its
\* wind-speed bin, and there is at most one row per (boat, wind-speed bin).
C14_AnglesOnlyWithTenPointsOneRowPerBin ==
    /\ \A r \in DOMAIN vmgopts :
          LET row == vmgopts[r]
          IN  /\ (row.optimal_upwind_angle # None \/ row.upwind_vmg # None) =>
                    vmg_samples(row.boat_id, row.tws_min, row.tws_max, 0 .. 89) >= 10
              /\ (row.optimal_downwind_angle # None \/ row.downwind_vmg # None) =>
                    vmg_samples(row.boat_id, row.tws_min, row.tws_max, 90 .. 180) >= 10
    /\ \A r, q \in DOMAIN vmgopts :
          (/\ vmgopts[r].boat_id = vmgopts[q].boat_id
           /\ vmgopts[r].tws_min = vmgopts[q].tws_min
           /\ vmgopts[r].tws_max = vmgopts[q].tws_max) => r = q

\* Two runs with an upload in between: the row of the 6-12 kn bin, created
\* without an upwind optimum, has been updated with one.
C14_Witness ==
    /\ clock = 2
    /\ \E r \in DOMAIN vmgopts :
          /\ vmgopts[r].tws_min = 6
          /\ vmgopts[r].last_trained = 2
          /\ vmgopts[r].optimal_upwind_angle = Some(40)
          /\ vmgopts[r].upwind_sample_count = 10
          /\ vmgopts[r].downwind_sample_count = 11
          /\ vmgopts[r].training_metadata.total_points = 21
    /\ \E rp \in reply : rp.op = "optimize_vmg"

\* The sum over the boat's points counted by vmg_samples of the velocity
\* component along the wind axis, sog * |cos(twa)|, in 0.0001 kn.
wind_axis_speed(boat_id, tws_min, tws_max, angles) ==
    LET ks == {k \in VKinds : /\ k.tws # None /\ k.twa # None /\ k.sog > 10
                              /\ The(k.tws) # 0 /\ The(k.twa) # 0
                              /\ The(k.tws) >= tws_min /\ The(k.tws) < tws_max
                              /\ Abs(The(k.twa)) \in angles}
    IN  sum_over(ks, [k \in ks |->
            k.sog * Abs(cos_milli(Abs(The(k.twa))))
            * sum_over(sessions_of_boat(boat_id), [sid \in SessionIds |-> windpts[sid][k]])])

\* The angle-bin a holds at least 3 samples and no angle-bin of its side with
\* at least 3 samples has a greater mean component along the wind axis.
greatest_mean_component(boat_id, tws_min, tws_max, a, upwind) ==
    LET count(b) == vmg_samples(boat_id, tws_min, tws_max, angles_of_bin(b, upwind))
        total(b) == wind_axis_speed(boat_id, tws_min, tws_max, angles_of_bin(b, upwind))
    IN  /\ count(a) >= 3
        /\ \A b \in {5 * n : n \in 0 .. 36} :
               count(b) >= 3 => total(a) * count(b) >= total(b) * count(a)

\* C28: for each wind-speed bin, the downwind optimum optimize_vmg_for_boat
\* chooses is the eligible 5-degree angle-bin whose mean velocity component
\* away from the wind, sog * |cos(twa)|, is the greatest among the downwind
\* angle-bins, and the upwind optimum the one whose mean component toward the
\* wind is the greatest.
C28_OptimumHasGreatestWindAxisSpeed ==
    [][\A rp \in reply' :
           (rp.op = "optimize_vmg" /\ "results" \in DOMAIN rp)
           => \A x \in DOMAIN rp.results :
                  LET res == rp.results[x]
                  IN  /\ res.upwind_angle # None
                         => greatest_mean_component(rp.boat_id, res.tws_min, res.tws_max,
                                                    The(res.upwind_angle), TRUE)
                      /\ res.downwind_angle # None
                         => greatest_mean_component(rp.boat_id, res.tws_min, res.tws_max,
                                                    The(res.downwind_angle), FALSE)]_vars

\* ------------------------------------------------------ Wind Shift Detector
\*
\* Points carry whole seconds, whole degrees and whole knots of wind; averages
\* are kept as num / den, confidences in hundredths, oscillation_period in
\* seconds (the column holds minutes: seconds / 60).

\* calculate_twd
calculate_twd(cog, twa) == (cog + twa) % 360

\* The points query of detect_wind_shifts: the session's points with tws, twa
\* and cog, in ts order.
shift_points(session_id) ==
    SelectSeq(track[session_id], LAMBDA pt : pt.tws # None /\ pt.twa # None)

\* twd_data
twd_data_of(points) ==
    [i \in 1 .. Len(points) |->
        [ts |-> points[i].ts, twd |-> calculate_twd(points[i].cog, The(points[i].twa)),
         tws |-> The(points[i].tws)]]

\* before_window, as 0-based indices into twd_data
before_window(data, i, window_seconds) ==
    {p \in 0 .. i : At(data, i).ts - At(data, p).ts <= window_seconds}

\* after_window, as 0-based indices into twd_data
after_window(data, i, window_seconds) ==
    {p \in i + 1 .. Len(data) - 1 : At(data, p).ts <= At(data, i).ts + window_seconds}

\* normalize_angle_difference(angle1, angle2) for angle1 = b.num / b.den and
\* angle2 = a.num / a.den, as num / den
normalize_angle_difference(b, a) ==
    LET den == a.den * b.den
        diff == a.num * b.den - b.num * a.den
    IN  [num |-> IF diff > 180 * den THEN diff - 360 * den
                 ELSE IF diff < -180 * den THEN diff + 360 * den
                 ELSE diff,
         den |-> den]

\* The loop body without the "is_new_shift" test: every index whose windows
\* differ by min_shift_deg appends an entry.
shift_at_unspaced(data, detected, i, min_shift_deg, window_seconds) ==
    LET before == before_window(data, i, window_seconds)
        after == after_window(data, i, window_seconds)
        twd == [p \in before \cup after |-> At(data, p).twd]
        tws == [p \in before \cup after |-> At(data, p).tws]
        avg_twd_before == [num |-> sum_over(before, twd), den |-> Cardinality(before)]
        avg_twd_after == [num |-> sum_over(after, twd), den |-> Cardinality(after)]
        shift == normalize_angle_difference(avg_twd_before, avg_twd_after)
        current_ts == At(data, i).ts
    IN  IF Cardinality(before) < 5 \/ Cardinality(after) < 5 THEN <<>>
        ELSE IF Abs(shift.num) >= min_shift_deg * shift.den
        THEN <<[start_ts        |-> current_ts,
                end_ts          |-> At(data, CHOOSE p \in after : \A q \in after : q <= p).ts,
                shift_magnitude |-> [num |-> Abs(shift.num), den |-> shift.den],
                shift_direction |-> IF shift.num > 0 THEN "right" ELSE "left",
                twd_before      |-> avg_twd_before,
                twd_after       |-> avg_twd_after,
                avg_tws_before  |-> [num |-> sum_over(before, tws), den |-> Cardinality(before)],
                avg_tws_after   |-> [num |-> sum_over(after, tws), den |-> Cardinality(after)]]>>
        ELSE <<>>

\* The body of the sliding-window loop at index i: the entry appended to
\* shifts_detected, in a list of at most one.
shift_at(data, detected, i, min_shift_deg, window_seconds) ==
    LET before == before_window(data, i, window_seconds)
        after == after_window(data, i, window_seconds)
        twd == [p \in before \cup after |-> At(data, p).twd]
        tws == [p \in before \cup after |-> At(data, p).tws]
        avg_twd_before == [num |-> sum_over(before, twd), den |-> Cardinality(before)]
        avg_twd_after == [num |-> sum_over(after, twd), den |-> Cardinality(after)]
        shift == normalize_angle_difference(avg_twd_before, avg_twd_after)
        current_ts == At(data, i).ts
        is_new_shift == \A q \in DOMAIN detected :
                            ~(current_ts - detected[q].start_ts < window_seconds)
    IN  IF Cardinality(before) < 5 \/ Cardinality(after) < 5 THEN <<>>
        ELSE IF Abs(shift.num) >= min_shift_deg * shift.den /\ is_new_shift
        THEN <<[start_ts        |-> current_ts,
                end_ts          |-> At(data, CHOOSE p \in after : \A q \in after : q <= p).ts,
                shift_magnitude |-> [num |-> Abs(shift.num), den |-> shift.den],
                shift_direction |-> IF shift.num > 0 THEN "right" ELSE "left",
                twd_before      |-> avg_twd_before,
                twd_after       |-> avg_twd_after,
                avg_tws_before  |-> [num |-> sum_over(before, tws), den |-> Cardinality(before)],
                avg_tws_after   |-> [num |-> sum_over(after, tws), den |-> Cardinality(after)]]>>
        ELSE <<>>

\* shifts_detected after the iterations 0 .. i of
\* "for i in range(len(twd_data) - 1)"
RECURSIVE shifts_detected(_, _, _, _)
shifts_detected(data, i, min_shift_deg, window_seconds) ==
    IF i < 0 THEN <<>>
    ELSE LET detected == shifts_detected(data, i - 1, min_shift_deg, window_seconds)
         IN  detected \o shift_at(data, detected, i, min_shift_deg, window_seconds)

\* "Look ahead to see if the shift reverses", from the shift at index j on:
\* the time to the reversal that makes shift i oscillating, None when the loop
\* ends without one.  time_between < 15 (minutes) is start_ts difference
\* < 15 * 60 (seconds).
RECURSIVE reversal_within(_, _, _)
reversal_within(detected, i, j) ==
    IF j > Len(detected) THEN None
    ELSE IF detected[j].start_ts - detected[i].start_ts < 15 * 60
    THEN IF detected[i].shift_direction # detected[j].shift_direction
         THEN Some(detected[j].start_ts - detected[i].start_ts)
         ELSE reversal_within(detected, i, j + 1)
    ELSE None

\* A classification that clears is_persistent on any later shift within 15
\* minutes, and so gives 'transient' to a shift followed only by shifts in its
\* own direction.
classified_with_transient(detected) ==
    [i \in 1 .. Len(detected) |->
        LET rev == reversal_within(detected, i, i + 1)
            followed == \E j \in i + 1 .. Len(detected) :
                            detected[j].start_ts - detected[i].start_ts < 15 * 60
        IN  IF rev # None
            THEN detected[i] @@ [shift_type |-> "oscillating", confidence |-> 80,
                                 oscillation_period |-> rev]
            ELSE IF followed
            THEN detected[i] @@ [shift_type |-> "transient", confidence |-> 60,
                                 oscillation_period |-> None]
            ELSE detected[i] @@ [shift_type |-> "persistent", confidence |-> 90,
                                 oscillation_period |-> None]]

\* "Classify each shift": is_persistent is cleared only where is_oscillating is
\* set, so 'transient' is never given.
classified(detected) ==
    [i \in 1 .. Len(detected) |->
        LET rev == reversal_within(detected, i, i + 1)
        IN  IF rev # None
            THEN detected[i] @@ [shift_type |-> "oscillating", confidence |-> 80,
                                 oscillation_period |-> rev]
            ELSE detected[i] @@ [shift_type |-> "persistent", confidence |-> 90,
                                 oscillation_period |-> None]]

\* POST /wind/detect-shifts/{session_id}
detect_wind_shifts(session_id, min_shift_deg, window_minutes) ==
    LET points == shift_points(session_id)
        twd_data == twd_data_of(points)
        found == classified(shifts_detected(twd_data, Len(twd_data) - 2, min_shift_deg,
                                            window_minutes * 60))
    IN  /\ clock' = clock + 1
        /\ IF Len(points) < 20
           THEN /\ reply' = {[op |-> "detect_wind_shifts",
                              error |-> "Insufficient data for wind shift analysis"]}
                /\ UNCHANGED shifts
           ELSE /\ shifts' = shifts \o [x \in 1 .. Len(found) |->
                                          found[x] @@ [id |-> Len(shifts) + x,
                                                       session_id |-> session_id]]
                /\ reply' = {[op |-> "detect_wind_shifts", session_id |-> session_id,
                              total_shifts_detected |-> Len(found)]}
        /\ UNCHANGED <<track, maneuvers, responses, stats>>
        /\ UNCHANGED <<windpts, baselines, anomalies, procs>>
        /\ UNCHANGED <<vmgopts, patterns, recs>>
        /\ UNCHANGED preVars

\* --------------------------------------------------- Wind Pattern Analyzer

RECURSIVE Gcd(_, _)
Gcd(x, y) == IF y = 0 THEN x ELSE Gcd(y, x % y)

\* num / den in lowest terms, den > 0
Frac(num, den) ==
    LET g == Gcd(Abs(num), den)
    IN  IF num = 0 THEN [num |-> 0, den |-> 1] ELSE [num |-> num \div g, den |-> den \div g]

frac_add(x, y) == Frac(x.num * y.den + y.num * x.den, x.den * y.den)

\* sum(...) over a list of fractions
RECURSIVE frac_sum(_)
frac_sum(fs) == IF fs = <<>> THEN [num |-> 0, den |-> 1] ELSE frac_add(Head(fs), frac_sum(Tail(fs)))

frac_div(x, n) == Frac(x.num, x.den * n)

\* The shifts query of analyze_wind_pattern: the session's rows by start_ts
\* (rows with equal start_ts in id order).
RECURSIVE sorted_by_start(_)
sorted_by_start(rows) ==
    IF rows = <<>> THEN <<>>
    ELSE LET first == CHOOSE x \in DOMAIN rows :
                          \A y \in DOMAIN rows :
                              \/ rows[x].start_ts < rows[y].start_ts
                              \/ (rows[x].start_ts = rows[y].start_ts /\ x <= y)
         IN  <<rows[first]>>
             \o sorted_by_start([x \in 1 .. Len(rows) - 1 |->
                                    IF x < first THEN rows[x] ELSE rows[x + 1]])

session_shifts(session_id) ==
    sorted_by_start(SelectSeq(shifts, LAMBDA sh : sh.session_id = session_id))

\* The WindPattern of a session without shifts.
stable_pattern(session_id, now) ==
    [session_id             |-> session_id,
     analyzed_at            |-> now,
     dominant_pattern       |-> "stable",
     pattern_strength       |-> [num |-> 1, den |-> 1],
     is_oscillating         |-> 0,
     avg_oscillation_period |-> None,
     oscillation_amplitude  |-> None,
     next_shift_prediction  |-> None,
     prediction_confidence  |-> None,
     total_shifts_detected  |-> 0,
     avg_shift_magnitude    |-> [num |-> 0, den |-> 1],
     wind_stability_score   |-> [num |-> 100, den |-> 1],
     analysis_metadata      |-> <<>>]

\* The analysis with the persistent trend decided by a margin of two shifts
\* ("exceeds the other by more than 2") in place of a factor of two.
shift_pattern_by_margin(session_id, now, rows) ==
    LET right_shifts == SelectSeq(rows, LAMBDA sh : sh.shift_direction = "right")
        left_shifts == SelectSeq(rows, LAMBDA sh : sh.shift_direction = "left")
        oscillating_shifts == SelectSeq(rows, LAMBDA sh : sh.shift_type = "oscillating")
        total_shifts == Len(rows)
        magnitudes(rs) == [x \in 1 .. Len(rs) |-> rs[x].shift_magnitude]
        avg_magnitude == frac_div(frac_sum(magnitudes(rows)), total_shifts)
        oscillating == 2 * Len(oscillating_shifts) > total_shifts
        \* "if s.oscillation_period": a period that is present and not 0
        with_period == SelectSeq(oscillating_shifts,
                                 LAMBDA sh : sh.oscillation_period # None
                                             /\ sh.oscillation_period # {0})
        avg_period == IF oscillating /\ with_period # <<>>
                      THEN Some(Frac(sum_seq([x \in 1 .. Len(with_period) |->
                                                 The(with_period[x].oscillation_period)]),
                                     Len(with_period)))
                      ELSE None
        avg_amplitude == IF oscillating /\ with_period # <<>>
                         THEN Some(frac_div(frac_sum(magnitudes(oscillating_shifts)),
                                            Len(oscillating_shifts)))
                         ELSE None
        dominant_pattern ==
            IF oscillating THEN "oscillating"
            ELSE IF Len(right_shifts) > Len(left_shifts) + 2 THEN "persistent_right"
            ELSE IF Len(left_shifts) > Len(right_shifts) + 2 THEN "persistent_left"
            ELSE "unstable"
        pattern_strength ==
            IF oscillating THEN Frac(Len(oscillating_shifts), total_shifts)
            ELSE IF Len(right_shifts) > Len(left_shifts) + 2 THEN Frac(Len(right_shifts), total_shifts)
            ELSE IF Len(left_shifts) > Len(right_shifts) + 2 THEN Frac(Len(left_shifts), total_shifts)
            ELSE [num |-> 1, den |-> 2]
        \* max(0, 100 - total_shifts * 5 - avg_magnitude * 2)
        raw_score == Frac((100 - 5 * total_shifts) * avg_magnitude.den - 2 * avg_magnitude.num,
                          avg_magnitude.den)
        last_shift == rows[Len(rows)]
    IN  [session_id             |-> session_id,
         analyzed_at            |-> now,
         dominant_pattern       |-> dominant_pattern,
         pattern_strength       |-> pattern_strength,
         is_oscillating         |-> IF oscillating THEN 1 ELSE 0,
         avg_oscillation_period |-> avg_period,
         oscillation_amplitude  |-> avg_amplitude,
         next_shift_prediction  |->
             IF dominant_pattern = "oscillating" /\ avg_period # None
             THEN Some(IF last_shift.shift_direction = "right" THEN "left" ELSE "right")
             ELSE IF dominant_pattern = "persistent_right" THEN Some("right")
             ELSE IF dominant_pattern = "persistent_left" THEN Some("left")
             ELSE Some("stable"),
         prediction_confidence  |->
             IF dominant_pattern = "oscillating" /\ avg_period # None
             THEN Some(Frac(7 * pattern_strength.num, 10 * pattern_strength.den))
             ELSE IF dominant_pattern \in {"persistent_right", "persistent_left"}
             THEN Some(Frac(6 * pattern_strength.num, 10 * pattern_strength.den))
             ELSE Some([num |-> 1, den |-> 2]),
         total_shifts_detected  |-> total_shifts,
         avg_shift_magnitude    |-> avg_magnitude,
         wind_stability_score   |-> IF raw_score.num < 0 THEN [num |-> 0, den |-> 1] ELSE raw_score,
         analysis_metadata      |-> <<Len(right_shifts), Len(left_shifts), Len(oscillating_shifts)>>]

\* The WindPattern computed from the shifts (a non-empty list).
shift_pattern(session_id, now, rows) ==
    LET right_shifts == SelectSeq(rows, LAMBDA sh : sh.shift_direction = "right")
        left_shifts == SelectSeq(rows, LAMBDA sh : sh.shift_direction = "left")
        oscillating_shifts == SelectSeq(rows, LAMBDA sh : sh.shift_type = "oscillating")
        total_shifts == Len(rows)
        magnitudes(rs) == [x \in 1 .. Len(rs) |-> rs[x].shift_magnitude]
        avg_magnitude == frac_div(frac_sum(magnitudes(rows)), total_shifts)
        oscillating == 2 * Len(oscillating_shifts) > total_shifts
        \* "if s.oscillation_period": a period that is present and not 0
        with_period == SelectSeq(oscillating_shifts,
                                 LAMBDA sh : sh.oscillation_period # None
                                             /\ sh.oscillation_period # {0})
        avg_period == IF oscillating /\ with_period # <<>>
                      THEN Some(Frac(sum_seq([x \in 1 .. Len(with_period) |->
                                                 The(with_period[x].oscillation_period)]),
                                     Len(with_period)))
                      ELSE None
        avg_amplitude == IF oscillating /\ with_period # <<>>
                         THEN Some(frac_div(frac_sum(magnitudes(oscillating_shifts)),
                                            Len(oscillating_shifts)))
                         ELSE None
        dominant_pattern ==
            IF oscillating THEN "oscillating"
            ELSE IF Len(right_shifts) > Len(left_shifts) * 2 THEN "persistent_right"
            ELSE IF Len(left_shifts) > Len(right_shifts) * 2 THEN "persistent_left"
            ELSE "unstable"
        pattern_strength ==
            IF oscillating THEN Frac(Len(oscillating_shifts), total_shifts)
            ELSE IF Len(right_shifts) > Len(left_shifts) * 2 THEN Frac(Len(right_shifts), total_shifts)
            ELSE IF Len(left_shifts) > Len(right_shifts) * 2 THEN Frac(Len(left_shifts), total_shifts)
            ELSE [num |-> 1, den |-> 2]
        \* max(0, 100 - total_shifts * 5 - avg_magnitude * 2)
        raw_score == Frac((100 - 5 * total_shifts) * avg_magnitude.den - 2 * avg_magnitude.num,
                          avg_magnitude.den)
        last_shift == rows[Len(rows)]
    IN  [session_id             |-> session_id,
         analyzed_at            |-> now,
         dominant_pattern       |-> dominant_pattern,
         pattern_strength       |-> pattern_strength,
         is_oscillating         |-> IF oscillating THEN 1 ELSE 0,
         avg_oscillation_period |-> avg_period,
         oscillation_amplitude  |-> avg_amplitude,
         next_shift_prediction  |->
             IF dominant_pattern = "oscillating" /\ avg_period # None
             THEN Some(IF last_shift.shift_direction = "right" THEN "left" ELSE "right")
             ELSE IF dominant_pattern = "persistent_right" THEN Some("right")
             ELSE IF dominant_pattern = "persistent_left" THEN Some("left")
             ELSE Some("stable"),
         prediction_confidence  |->
             IF dominant_pattern = "oscillating" /\ avg_period # None
             THEN Some(Frac(7 * pattern_strength.num, 10 * pattern_strength.den))
             ELSE IF dominant_pattern \in {"persistent_right", "persistent_left"}
             THEN Some(Frac(6 * pattern_strength.num, 10 * pattern_strength.den))
             ELSE Some([num |-> 1, den |-> 2]),
         total_shifts_detected  |-> total_shifts,
         avg_shift_magnitude    |-> avg_magnitude,
         wind_stability_score   |-> IF raw_score.num < 0 THEN [num |-> 0, den |-> 1] ELSE raw_score,
         analysis_metadata      |-> <<Len(right_shifts), Len(left_shifts), Len(oscillating_shifts)>>]

\* POST /wind/analyze-pattern/{session_id}
analyze_wind_pattern(session_id) ==
    LET rows == session_shifts(session_id)
        pattern == IF rows = <<>> THEN stable_pattern(session_id, clock + 1)
                   ELSE shift_pattern(session_id, clock + 1, rows)
    IN  /\ clock' = clock + 1
        /\ patterns' = Append(patterns, pattern @@ [id |-> Len(patterns) + 1])
        /\ reply' = {[op |-> "analyze_wind_pattern", session_id |-> session_id,
                      dominant_pattern |-> pattern.dominant_pattern,
                      total_shifts |-> pattern.total_shifts_detected]}
        /\ UNCHANGED <<track, maneuvers, responses, stats>>
        /\ UNCHANGED <<windpts, baselines, anomalies, procs>>
        /\ UNCHANGED <<vmgopts, shifts, recs>>
        /\ UNCHANGED preVars

\* The first row of the session in ascending order of analyzed_at.
current_pattern_oldest(session_id) ==
    LET own == {r \in DOMAIN patterns : patterns[r].session_id = session_id}
    IN  {patterns[r] : r \in {x \in own : \A y \in own : patterns[x].analyzed_at <= patterns[y].analyzed_at}}

\* filter(session_id).order_by(analyzed_at.desc()).first(): the rows the query
\* may return, none when the session has no pattern; rows with the same
\* analyzed_at come in an order the database chooses.
current_pattern(session_id) ==
    LET own == {r \in DOMAIN patterns : patterns[r].session_id = session_id}
    IN  {patterns[r] : r \in {x \in own : \A y \in own : patterns[x].analyzed_at >= patterns[y].analyzed_at}}

\* GET /wind/pattern/{session_id}
get_wind_pattern(session_id) ==
    /\ IF current_pattern(session_id) = {}
       THEN reply' = {[op |-> "get_wind_pattern",
                       error |-> "No pattern analysis found. Run /wind/analyze-pattern first."]}
       ELSE \E pattern \in current_pattern(session_id) :
                reply' = {[op |-> "get_wind_pattern", session_id |-> session_id,
                           pattern |-> pattern]}
    /\ UNCHANGED <<track, maneuvers, responses, stats>>
    /\ UNCHANGED <<windpts, baselines, anomalies, clock, procs>>
    /\ UNCHANGED tacVars
    /\ UNCHANGED preVars

\* ------------------------------------------- Coaching Recommendation Engine
\*
\* A recommendation is kept as its type, priority, confidence and the values
\* its context is built from, unrounded; the advice text and the reasoning are
\* formatted from the same values and are not modelled, nor are lat and lon.

\* calculate_vmg(sog, twa) = abs(sog * cos(twa)), in 0.0001 kn
calculate_vmg(sog, twa) == Abs(sog * cos_milli(twa))

\* recent_points: the session's points with analysis_window <= ts <=
\* current_time, the latest first.
recent_points(session_id, current_time) ==
    LET inside == SelectSeq(track[session_id],
                            LAMBDA pt : pt.ts >= current_time - 5 * 60 /\ pt.ts <= current_time)
    IN  [x \in 1 .. Len(inside) |-> inside[Len(inside) + 1 - x]]

\* "1. VMG ANALYSIS": the recommendations the block appends
vmg_analysis(boat_id, current_point) ==
    LET current_tws == The(current_point.tws)
        current_twa == Abs(The(current_point.twa))
        current_vmg == calculate_vmg(current_point.sog, current_twa)
        is_upwind == current_twa < 90
        hits == {r \in DOMAIN vmgopts : /\ vmgopts[r].boat_id = boat_id
                                        /\ vmgopts[r].tws_min <= current_tws
                                        /\ vmgopts[r].tws_max > current_tws}
        vmg_opts == vmgopts[CHOOSE r \in hits : \A q \in hits : r <= q]
        \* "vmg_opts.optimal_upwind_angle": present and not 0
        has(angle) == angle # None /\ angle # {0}
        context(optimal_angle, optimal_vmg) ==
            [current_twa |-> current_twa, optimal_twa |-> optimal_angle,
             angle_deviation |-> current_twa - optimal_angle,
             current_vmg |-> current_vmg, optimal_vmg |-> optimal_vmg]
    IN  IF hits = {} THEN <<>>
        ELSE IF is_upwind /\ has(vmg_opts.optimal_upwind_angle)
        THEN LET optimal_angle == The(vmg_opts.optimal_upwind_angle)
                 angle_deviation == current_twa - optimal_angle
             IN  IF Abs(angle_deviation) > 5
                 THEN <<[type |-> IF angle_deviation > 0 THEN "sail_lower" ELSE "sail_higher",
                         priority |-> IF Abs(angle_deviation) > 10 THEN "high" ELSE "medium",
                         confidence |-> 85,
                         context |-> context(optimal_angle, The(vmg_opts.upwind_vmg))]>>
                 ELSE <<>>
        ELSE IF ~is_upwind /\ has(vmg_opts.optimal_downwind_angle)
        THEN LET optimal_angle == The(vmg_opts.optimal_downwind_angle)
                 angle_deviation == current_twa - optimal_angle
             IN  IF Abs(angle_deviation) > 8
                 THEN <<[type |-> IF angle_deviation > 0 THEN "sail_lower" ELSE "sail_higher",
                         priority |-> "medium",
                         confidence |-> 80,
                         context |-> context(optimal_angle, The(vmg_opts.downwind_vmg))]>>
                 ELSE <<>>
        ELSE <<>>

\* "2. SPEED ANALYSIS".  expected_sog and std_sog are over the same den, so
\* z_score = speed_deficit / std_sog has z_score ** 2 = deficit ** 2 / sq_num
\* for deficit = avg_sog.num - current_sog * den.
speed_analysis(boat_id, current_point) ==
    LET current_tws == The(current_point.tws)
        current_twa == Abs(The(current_point.twa))
        hits == {r \in DOMAIN baselines : /\ baselines[r].boat_id = boat_id
                                          /\ baselines[r].bin.tws_min <= current_tws
                                          /\ baselines[r].bin.tws_max > current_tws
                                          /\ baselines[r].bin.twa_min <= current_twa
                                          /\ baselines[r].bin.twa_max > current_twa}
        bl == baselines[CHOOSE r \in hits : \A q \in hits : r <= q]
        deficit == bl.avg_sog.num - current_point.sog * bl.avg_sog.den
        \* z_score > limit / 2
        z_above(limit) == deficit > 0 /\ 4 * deficit * deficit > limit * limit * bl.std_sog.sq_num
    IN  IF hits = {} THEN <<>>
        ELSE IF bl.sample_count >= 20 /\ bl.std_sog.sq_num > 0 /\ z_above(3)
        THEN <<[type |-> "speed_mode",
                priority |-> IF z_above(5) THEN "high" ELSE "medium",
                confidence |-> 75,
                context |-> [expected_sog |-> bl.avg_sog, actual_sog |-> current_point.sog,
                             std_sog |-> bl.std_sog]]>>
        ELSE <<>>

\* "3. WIND SHIFT DETECTION" over recent_points[:30]
wind_shift_analysis(recent, current_point) ==
    LET is_upwind == Abs(The(current_point.twa)) < 90
        first30 == SubSeq(recent, 1, Min2(30, Len(recent)))
        \* "if pt.tws and pt.twa and pt.cog": present and not 0
        sampled == SelectSeq(first30, LAMBDA pt : /\ pt.tws # None /\ pt.tws # {0}
                                                  /\ pt.twa # None /\ pt.twa # {0}
                                                  /\ pt.cog # 0)
        wind_samples == [x \in DOMAIN sampled |-> (sampled[x].cog + The(sampled[x].twa)) % 360]
        \* recent_twd and earlier_twd, times 10
        recent_sum == sum_seq(SubSeq(wind_samples, 1, 10))
        earlier_sum == sum_seq(SubSeq(wind_samples, 11, 20))
        diff == recent_sum - earlier_sum
        shift == IF diff > 1800 THEN diff - 3600 ELSE IF diff < -1800 THEN diff + 3600 ELSE diff
        rec(direction) ==
            [type |-> "wind_shift_detected", priority |-> "high", confidence |-> 70,
             context |-> [shift_degrees |-> [num |-> shift, den |-> 10], direction |-> direction,
                          earlier_twd |-> [num |-> earlier_sum, den |-> 10],
                          recent_twd |-> [num |-> recent_sum, den |-> 10]]]
    IN  IF Len(recent) < 30 \/ Len(wind_samples) < 20 THEN <<>>
        ELSE IF Abs(shift) <= 100 THEN <<>>
        ELSE IF shift > 0 THEN (IF is_upwind THEN <<rec("right")>> ELSE <<>>)
        ELSE <<rec("left")>>

\* recent_maneuvers: the session's maneuvers that start in the analysis
\* window, the latest start first (rows with the same start in id order).
recent_maneuvers(session_id, current_time) ==
    LET own == SelectSeq(maneuvers, LAMBDA mv : /\ mv.session_id = session_id
                                                /\ mv.data.start_ts >= current_time - 5 * 60)
    IN  own

\* The first row of recent_maneuvers in descending order of start_ts.
last_maneuver_of(rows) ==
    rows[CHOOSE x \in DOMAIN rows :
            \A y \in DOMAIN rows :
                \/ rows[x].data.start_ts > rows[y].data.start_ts
                \/ (rows[x].data.start_ts = rows[y].data.start_ts /\ x <= y)]

\* "4. MANEUVER ANALYSIS"
maneuver_analysis(session_id, current_time) ==
    LET rows == recent_maneuvers(session_id, current_time)
        last_maneuver == last_maneuver_of(rows)
        time_since_maneuver == current_time - last_maneuver.data.end_ts
    IN  IF rows = <<>> THEN <<>>
        ELSE IF /\ time_since_maneuver < 60
                /\ last_maneuver.data.type = "tack"
                /\ last_maneuver.data.score_0_100 < 60
        THEN <<[type |-> "maneuver_review", priority |-> "low", confidence |-> 90,
                context |-> [maneuver_type |-> last_maneuver.data.type,
                             score |-> last_maneuver.data.score_0_100,
                             time_through |-> last_maneuver.data.time_through_sec,
                             speed_loss |-> last_maneuver.data.speed_loss_kn]]>>
        ELSE <<>>

\* recommendations, after the four blocks
recommendations_of(session_id, boat_id, current_time, recent) ==
    vmg_analysis(boat_id, recent[1])
    \o speed_analysis(boat_id, recent[1])
    \o wind_shift_analysis(recent, recent[1])
    \o maneuver_analysis(session_id, current_time)

\* "5. SAVE RECOMMENDATIONS": the table after the commit
save_recommendations(session_id, current_time, recommendations) ==
    recs \o [x \in 1 .. Len(recommendations) |->
                [id                  |-> Len(recs) + x,
                 session_id          |-> session_id,
                 ts                  |-> current_time,
                 recommendation_type |-> recommendations[x].type,
                 priority            |-> recommendations[x].priority,
                 confidence_score    |-> recommendations[x].confidence,
                 context_data        |-> recommendations[x].context,
                 was_followed        |-> None,
                 dismissed           |-> 0]]

coach_error(session_id, detail) ==
    /\ reply' = {[op |-> "analyze_and_recommend", session_id |-> session_id, error |-> detail]}
    /\ UNCHANGED recs

\* POST /coaching/analyze/{session_id}, current_time given or None.  Every
\* session of the model has a boat, so "Session has no associated boat" does
\* not occur.
analyze_and_recommend(session_id, current_time) ==
    /\ IF session_id \notin SessionIds THEN coach_error(session_id, "Session not found")
       ELSE IF current_time = None /\ track[session_id] = <<>>
       THEN coach_error(session_id, "No track points found")
       ELSE LET boat_id == boat_of_session(session_id)
                now == IF current_time = None
                       THEN track[session_id][Len(track[session_id])].ts
                       ELSE The(current_time)
                recent == recent_points(session_id, now)
            IN  IF Len(recent) < 10
                THEN coach_error(session_id, "Insufficient data for analysis")
                ELSE IF recent[1].tws = None \/ recent[1].twa = None
                THEN coach_error(session_id, "Missing wind data for analysis")
                ELSE LET recommendations == recommendations_of(session_id, boat_id, now, recent)
                     IN  /\ recs' = save_recommendations(session_id, now, recommendations)
                         /\ reply' = {[op |-> "analyze_and_recommend",
                                       session_id |-> session_id,
                                       analyzed_at |-> now,
                                       recommendations_count |-> Len(recommendations),
                                       recommendations |->
                                           [x \in DOMAIN recommendations |->
                                               [type |-> recommendations[x].type,
                                                priority |-> recommendations[x].priority,
                                                confidence |-> recommendations[x].confidence]]]}
    /\ clock' = clock + 1
    /\ UNCHANGED <<track, maneuvers, responses, stats>>
    /\ UNCHANGED <<windpts, baselines, anomalies, procs>>
    /\ UNCHANGED <<vmgopts, shifts, patterns>>
    /\ UNCHANGED preVars

\* ------------------------------------------------- Wind: the specification

MaxWindRuns == 3

\* A point of a wind track: sailing 40 degrees off a wind of twd degrees and
\* 10 knots, at 6.0 knots.
WindPoint(ts, twd) ==
    [ts |-> ts, sog |-> 60, cog |-> (twd + 320) % 360, tws |-> Some(10), twa |-> Some(40)]

\* The seconds between two points of a wind track.
WindStep == 60

\* A track of three legs of l1, l2 and l3 points with the wind from d1, d2 and
\* d3 degrees.
wind_track(l1, d1, l2, d2, l3, d3) ==
    [i \in 1 .. l1 + l2 + l3 |->
        WindPoint(WindStep * (i - 1),
                  IF i <= l1 THEN d1 ELSE IF i <= l1 + l2 THEN d2 ELSE d3)]

\* The last two tracks are a steady northerly whose samples read 359 and 1,
\* and a wind that veers 10 degrees once.
WindTracks ==
    {wind_track(8, 100, l2, d2, l3, d3) :
        l2 \in {6, 14, 15}, d2 \in {110, 120}, l3 \in {8}, d3 \in {100, 130}}
    \cup {wind_track(8, 359, 6, 1, 8, 359), wind_track(8, 100, 6, 110, 8, 110)}

InitWind ==
    /\ PreIdle
    /\ track \in {[sid \in SessionIds |-> IF sid = 1 THEN t ELSE <<>>] : t \in WindTracks}
    /\ maneuvers = <<>>
    /\ responses = <<>>
    /\ stats = {}
    /\ BaseIdle
    /\ TacIdle

\* The parameters DetectWindShifts passes: min_shift_deg, window_minutes.
WindMinShift == 8

WindWindowMinutes == 5

DetectWindShifts ==
    \E session_id \in SessionIds :
        clock < MaxWindRuns /\ detect_wind_shifts(session_id, WindMinShift, WindWindowMinutes)

AnalyzeWindPattern ==
    \E session_id \in SessionIds : clock < MaxWindRuns /\ analyze_wind_pattern(session_id)

GetWindPattern ==
    \E session_id \in SessionIds : get_wind_pattern(session_id)

NextWind == DetectWindShifts \/ AnalyzeWindPattern \/ GetWindPattern

SpecWind == InitWind /\ [][NextWind]_vars

\* --------------------------------------------- Coaching: the specification

MaxCoachRuns == 2

\* The points of the boat's earlier session, by kind in the order of VKindSeq.
CoachHistory == [k \in VKinds |-> <<6, 0, 15, 8, 3, 28, 0>>[VKindIndex(k)]]

\* The VMGOptimization rows optimize_vmg_for_boat learns from the history.
learned_vmg(hist) ==
    LET points == [k \in {x \in DOMAIN hist : x.tws # None /\ x.twa # None /\ x.sog > 10} |->
                      hist[k]]
    IN  IF frame_len(points) < 50 THEN <<>>
        ELSE optimize_bins(<<>>, 1, vmg_frame(points), 0, 1).rows

\* The writes of calculate_baseline_for_boat over the history, for the bins
\* k .. NBins-1.
RECURSIVE history_writes(_, _)
history_writes(hist, k) ==
    IF k >= NBins THEN <<>>
    ELSE LET bp == [x \in {y \in DOMAIN hist : has_wind_and_moves(y) /\ in_bin(y, bin_at(k))} |->
                       hist[x]]
         IN  (IF has_enough_points(bp)
              THEN <<[op |-> "insert", row |-> 0, boat_id |-> 1, bin |-> bin_at(k),
                      stat |-> bin_statistics(bp), last_updated |-> 0]>>
              ELSE <<>>)
             \o history_writes(hist, k + 1)

\* The PerformanceBaseline rows calculated from the history.
learned_baselines(hist) == commit_writes(<<>>, history_writes(hist, 0))

\* How the boat sails in the session: speed in tenths of a knot and true wind
\* angle.
CoachModes == {[sog |-> 60, twa |-> 40], [sog |-> 55, twa |-> 30],
               [sog |-> 67, twa |-> 52], [sog |-> 50, twa |-> 150]}

\* The seconds between two points of the session.
CoachStep == 10

\* The wind direction of the session, in degrees.
CoachTwd == 20

\* A session of n points sailed in the mode md with the wind from CoachTwd.
\* tail "tack": the last three points are on the other tack at 5.0 kn;
\* "right" / "left": the wind is 15 degrees further right / left for the last
\* ten points; windless: the last point has no wind data.
coach_track(n, md, tail, windless) ==
    [i \in 1 .. n |->
        LET tacked == tail = "tack" /\ i > n - 3
            twd == IF tail = "right" /\ i > n - 10 THEN CoachTwd + 15
                   ELSE IF tail = "left" /\ i > n - 10 THEN CoachTwd + 345
                   ELSE CoachTwd
            twa == IF tacked THEN -42 ELSE md.twa
        IN  [ts  |-> CoachStep * (i - 1),
             sog |-> IF tacked THEN 50 ELSE md.sog,
             cog |-> (twd + 360 - twa) % 360,
             tws |-> IF windless /\ i = n THEN None ELSE Some(8),
             twa |-> IF windless /\ i = n THEN None ELSE Some(twa)]]

\* Session 1 is long enough for the wind-shift block, session 2 is short
\* and may end in a tack.
LongCoachTracks ==
    {coach_track(31, md, tail, windless) :
        md \in CoachModes, tail \in {"steady", "right", "left"}, windless \in BOOLEAN}

ShortCoachTracks ==
    {coach_track(n, md, tail, windless) :
        n \in {9, 12}, md \in CoachModes, tail \in {"steady", "tack"}, windless \in BOOLEAN}

CoachTracks ==
    {[sid \in SessionIds |-> IF sid = 1 THEN t ELSE <<>>] : t \in LongCoachTracks}
    \cup {[sid \in SessionIds |-> IF sid = 2 THEN t ELSE <<>>] : t \in ShortCoachTracks}

InitCoach ==
    /\ PreIdle
    /\ track \in CoachTracks
    /\ maneuvers = <<>>
    /\ responses = <<>>
    /\ stats = {}
    /\ windpts = <<>>
    /\ baselines \in {<<>>, learned_baselines(CoachHistory)}
    /\ anomalies = <<>>
    /\ clock = 0
    /\ procs = <<>>
    /\ reply = {}
    /\ vmgopts \in {<<>>, learned_vmg(CoachHistory)}
    /\ shifts = <<>>
    /\ patterns = <<>>
    /\ recs = <<>>

\* The detection requests for the short session: the defaults, unsmoothed,
\* with and without the wind direction.
CoachRequests ==
    {r \in Requests : r.session_id = 2 /\ r.smooth_window = 1}

DetectCoachManeuvers ==
    \E req \in CoachRequests : responses = <<>> /\ detect_maneuvers(req)

AnalyzeAndRecommend ==
    \E session_id \in SessionIds \cup {3} :
        \E current_time \in {None, Some(CoachStep * 10)} :
            clock < MaxCoachRuns /\ analyze_and_recommend(session_id, current_time)

NextCoach == DetectCoachManeuvers \/ AnalyzeAndRecommend

SpecCoach == InitCoach /\ [][NextCoach]_vars

\* ------------------------------------------------------------ Wind: claims

\* The rows a detect_wind_shifts step adds.
added_shifts == Len(shifts) + 1 .. Len(shifts')

\* The rows added after row x that shift the other way and start at most limit
\* seconds after it.
reversals_until(x, limit) ==
    {y \in added_shifts : /\ y > x
                          /\ shifts'[y].shift_direction # shifts'[x].shift_direction
                          /\ shifts'[y].start_ts - shifts'[x].start_ts <= limit}

\* C15: every shift that detect_wind_shifts detects and that is followed at
\* most 15 minutes later by a shift in the opposite direction is stored as
\* 'oscillating' with confidence 0.8 and with the gap to the first such
\* reversal as its oscillation_period, also when shifts in its own direction
\* lie in between.
C15_ReversalAtMostFifteenMinutesIsOscillating ==
    [][\A x \in added_shifts :
           reversals_until(x, 15 * 60) # {}
           => /\ shifts'[x].shift_type = "oscillating"
              /\ shifts'[x].confidence = 80
              /\ \E y \in reversals_until(x, 15 * 60) :
                     /\ \A z \in reversals_until(x, 15 * 60) : y <= z
                     /\ shifts'[x].oscillation_period
                            = Some(shifts'[y].start_ts - shifts'[x].start_ts)]_vars

\* The number of wind points of the session with
\* start_ts + from <= ts <= start_ts + to.
points_around(session_id, start_ts, from, to) ==
    Cardinality({p \in DOMAIN track[session_id] :
                    /\ track[session_id][p].tws # None /\ track[session_id][p].twa # None
                    /\ track[session_id][p].ts >= start_ts + from
                    /\ track[session_id][p].ts <= start_ts + to})

\* C22: any two shifts detected in one detect_wind_shifts pass start at least
\* window_minutes apart, and every detected shift has at least 5 points in its
\* before window (the window_minutes up to and including its start) and in its
\* after window (the window_minutes after its start), and a magnitude of at
\* least min_shift_deg.
C22_ShiftsSpacedAndSupported ==
    [][\A x \in added_shifts :
           /\ \A y \in added_shifts :
                  x # y => Abs(shifts'[y].start_ts - shifts'[x].start_ts)
                               >= WindWindowMinutes * 60
           /\ points_around(shifts'[x].session_id, shifts'[x].start_ts,
                            -(WindWindowMinutes * 60), 0) >= 5
           /\ points_around(shifts'[x].session_id, shifts'[x].start_ts,
                            1, WindWindowMinutes * 60) >= 5
           /\ shifts'[x].shift_magnitude.num
                  >= WindMinShift * shifts'[x].shift_magnitude.den]_vars

\* One pass stored two shifts of the session, and left out a point between
\* them whose windows differ by min_shift_deg as well.
C22_Witness ==
    /\ clock = 1
    /\ Len(shifts) >= 2
    /\ LET data == twd_data_of(shift_points(shifts[1].session_id))
       IN  \E i \in 0 .. Len(data) - 2 :
               /\ At(data, i).ts > shifts[1].start_ts
               /\ At(data, i).ts < shifts[2].start_ts
               /\ shift_at(data, <<>>, i, WindMinShift, WindWindowMinutes * 60) # <<>>

\* The circular distance of two directions in degrees.
circular_distance(a, b) == Min2((a - b) % 360, (b - a) % 360)

\* The TWD samples in the before and after windows of a stored shift.
window_samples(x) ==
    {calculate_twd(pt.cog, The(pt.twa)) :
        pt \in {track[shifts'[x].session_id][p] :
                  p \in {q \in DOMAIN track[shifts'[x].session_id] :
                            /\ track[shifts'[x].session_id][q].tws # None
                            /\ track[shifts'[x].session_id][q].twa # None
                            /\ Abs(track[shifts'[x].session_id][q].ts - shifts'[x].start_ts)
                                   <= WindWindowMinutes * 60}}}

\* The length of the shortest arc that holds all the samples, for samples
\* less than 120 degrees from one another: the greatest distance between two
\* of them.  All samples lie within d degrees of one direction exactly when
\* this is at most 2d.
samples_arc(samples) ==
    CHOOSE g \in 0 .. 180 :
        /\ \A a \in samples : \A b \in samples : circular_distance(a, b) <= g
        /\ \E a \in samples : \E b \in samples : circular_distance(a, b) = g

\* C23: the shift detect_wind_shifts computes is circular-safe: when every TWD
\* sample of the before and after windows lies within d degrees of one common
\* direction, the magnitude is at most 2d, so a steady wind whose samples
\* straddle north yields no shift of min_shift_deg = 8 or more.
C23_ShiftMagnitudeWithinSampleArc ==
    [][\A x \in added_shifts :
           samples_arc(window_samples(x)) < 120
           => shifts'[x].shift_magnitude.num
                  <= samples_arc(window_samples(x)) * shifts'[x].shift_magnitude.den]_vars

\* The shifts one detection pass finds in the session, with the parameters of
\* DetectWindShifts.
one_pass_shifts(session_id) ==
    LET twd_data == twd_data_of(shift_points(session_id))
    IN  classified(shifts_detected(twd_data, Len(twd_data) - 2, WindMinShift,
                                   WindWindowMinutes * 60))

\* C24: running detect_wind_shifts again on an unchanged session and then
\* analyze_wind_pattern yields the same total_shifts, wind_stability_score and
\* dominant_pattern as one detection followed by the analysis.
C24_RepeatedDetectionSamePattern ==
    [][\A r \in Len(patterns) + 1 .. Len(patterns') :
           LET sid == patterns'[r].session_id
               once == shift_pattern(sid, patterns'[r].analyzed_at, one_pass_shifts(sid))
           IN  session_shifts(sid) # <<>>
               => /\ patterns'[r].total_shifts_detected = once.total_shifts_detected
                  /\ patterns'[r].wind_stability_score = once.wind_stability_score
                  /\ patterns'[r].dominant_pattern = once.dominant_pattern]_vars

\* The WindShift rows of a session with a property, counted.
count_shifts(session_id, Test(_)) ==
    Cardinality({x \in DOMAIN shifts : shifts[x].session_id = session_id /\ Test(shifts[x])})

\* C25: analyze_wind_pattern decides the dominant pattern as: no shifts gives
\* 'stable' with strength 1.0 and stability 100; otherwise 'oscillating', with
\* the oscillating fraction as strength, when more than half of the shifts are
\* oscillating; otherwise 'persistent_right' ('persistent_left') when the right
\* (left) count is more than twice the other, with that direction's fraction
\* as strength; otherwise 'unstable' with strength 0.5.
C25_DominantPatternDecision ==
    [][\A r \in Len(patterns) + 1 .. Len(patterns') :
           LET sid == patterns'[r].session_id
               total == count_shifts(sid, LAMBDA sh : TRUE)
               osc == count_shifts(sid, LAMBDA sh : sh.shift_type = "oscillating")
               right == count_shifts(sid, LAMBDA sh : sh.shift_direction = "right")
               left == count_shifts(sid, LAMBDA sh : sh.shift_direction = "left")
               strength == patterns'[r].pattern_strength
               is(name, num, den) ==
                   /\ patterns'[r].dominant_pattern = name
                   /\ strength.num * den = num * strength.den
           IN  IF total = 0
               THEN /\ is("stable", 1, 1)
                    /\ patterns'[r].wind_stability_score = [num |-> 100, den |-> 1]
               ELSE IF 2 * osc > total THEN is("oscillating", osc, total)
               ELSE IF right > 2 * left THEN is("persistent_right", right, total)
               ELSE IF left > 2 * right THEN is("persistent_left", left, total)
               ELSE is("unstable", 1, 2)]_vars

\* A session was found persistent_right on a single shift to the right: more
\* than twice the left count, though not more than two above it.
C25_Witness ==
    \E r \in DOMAIN patterns :
        /\ patterns[r].dominant_pattern = "persistent_right"
        /\ patterns[r].total_shifts_detected = 1
        /\ count_shifts(patterns[r].session_id, LAMBDA sh : sh.shift_direction = "right") = 1
        /\ patterns[r].pattern_strength = [num |-> 1, den |-> 1]

\* The directions of the session's shifts that start last.
last_shift_directions(session_id) ==
    {shifts[x].shift_direction :
        x \in {y \in DOMAIN shifts :
                  /\ shifts[y].session_id = session_id
                  /\ \A z \in DOMAIN shifts :
                         shifts[z].session_id = session_id
                         => shifts[z].start_ts <= shifts[y].start_ts}}

\* The prediction of a WindPattern row is `direction` with confidence
\* strength * tenths / 10.
predicts(row, direction, tenths) ==
    /\ row.next_shift_prediction = Some(direction)
    /\ row.prediction_confidence # None
    /\ The(row.prediction_confidence).num * 10 * row.pattern_strength.den
           = tenths * row.pattern_strength.num * The(row.prediction_confidence).den

\* dominant pattern to prediction, for a row written for a session with
\* shifts.
prediction_follows_pattern(row) ==
    IF row.dominant_pattern = "oscillating"
    THEN \E d \in last_shift_directions(row.session_id) :
             predicts(row, IF d = "right" THEN "left" ELSE "right", 7)
    ELSE IF row.dominant_pattern = "persistent_right" THEN predicts(row, "right", 6)
    ELSE IF row.dominant_pattern = "persistent_left" THEN predicts(row, "left", 6)
    ELSE /\ row.next_shift_prediction = Some("stable")
         /\ row.prediction_confidence = Some([num |-> 1, den |-> 2])

\* C26: in every WindPattern written by analyze_wind_pattern the next-shift
\* prediction follows the dominant pattern: 'oscillating' gives the direction
\* opposite to the last shift with confidence strength * 0.7;
\* 'persistent_left' / 'persistent_right' gives that direction with confidence
\* strength * 0.6; every other pattern gives 'stable' with confidence 0.5.
C26_PredictionFollowsDominantPattern ==
    [][\A r \in Len(patterns) + 1 .. Len(patterns') :
           prediction_follows_pattern(patterns'[r])]_vars

patterns_of(session_id) == {r \in DOMAIN patterns : patterns[r].session_id = session_id}

\* C16: after any sequence of analyze_wind_pattern runs for a session,
\* get_wind_pattern returns the summary of the session's most recent run, and
\* only that one can be returned.
C16_GetReturnsMostRecentPattern ==
    [][\A rp \in reply' :
           (rp.op = "get_wind_pattern" /\ "pattern" \in DOMAIN rp)
           => /\ current_pattern(rp.session_id) = {rp.pattern}
              /\ rp.pattern.session_id = rp.session_id
              /\ \A r \in patterns_of(rp.session_id) : r <= rp.pattern.id
              /\ rp.pattern = patterns[rp.pattern.id]]_vars

\* The session was analysed before and after its shifts were detected, and
\* get_wind_pattern answered with the second summary, which differs from the
\* first.
C16_Witness ==
    \E rp \in reply :
        /\ rp.op = "get_wind_pattern" /\ "pattern" \in DOMAIN rp
        /\ rp.pattern.dominant_pattern # "stable"
        /\ \E r \in patterns_of(rp.session_id) :
               /\ r < rp.pattern.id
               /\ patterns[r].dominant_pattern = "stable"

\* ------------------------------------------------------------ Coaching: claims

\* The requests of the specification.
CoachCalls == (SessionIds \cup {3}) \X {None, Some(CoachStep * 10)}

\* The reference time of a request.
reference_time(session_id, current_time) ==
    IF current_time = None THEN track[session_id][Len(track[session_id])].ts
    ELSE The(current_time)

\* The request is for a stored session with at least 10 points in the five
\* minutes up to its reference time.
has_recent_data(session_id, current_time) ==
    /\ session_id \in SessionIds
    /\ track[session_id] # <<>>
    /\ Len(recent_points(session_id, reference_time(session_id, current_time))) >= 10

\* The current point of such a request has no wind data.
wind_missing(session_id, current_time) ==
    LET pt == recent_points(session_id, reference_time(session_id, current_time))[1]
    IN  pt.tws = None \/ pt.twa = None

\* C17: analyze_and_recommend only appends to the recommendation log: every
\* recommendation of its response is stored as exactly one new
\* CoachingRecommendation, no record of an earlier run is changed or deleted,
\* and a run over enough data in which no rule triggers answers with an empty
\* list, not an error, and writes nothing.
C17_OnlyAppendsAndNoTriggerIsEmptyList ==
    [][\A call \in CoachCalls :
           analyze_and_recommend(call[1], call[2])
           => /\ Len(recs') >= Len(recs)
              /\ SubSeq(recs', 1, Len(recs)) = recs
              /\ \A rp \in reply' :
                     /\ "recommendations" \in DOMAIN rp
                        => /\ Len(recs') = Len(recs) + Len(rp.recommendations)
                           /\ \A x \in DOMAIN rp.recommendations :
                                  LET row == recs'[Len(recs) + x]
                                  IN  /\ row.id = Len(recs) + x
                                      /\ row.session_id = call[1]
                                      /\ row.recommendation_type = rp.recommendations[x].type
                                      /\ row.priority = rp.recommendations[x].priority
                                      /\ row.confidence_score = rp.recommendations[x].confidence
                     /\ has_recent_data(call[1], call[2])
                        => "recommendations" \in DOMAIN rp]_vars

\* C18: a run of analyze_and_recommend whose current point has no wind data
\* does not fail: it answers without the wind-dependent recommendations, and
\* the review of a poor tack of the last minute is in the answer and stored.
C18_MissingWindDoesNotFailThePass ==
    [][\A call \in CoachCalls :
           (/\ has_recent_data(call[1], call[2])
            /\ wind_missing(call[1], call[2])
            /\ analyze_and_recommend(call[1], call[2]))
           => \A rp \in reply' :
                  /\ "recommendations" \in DOMAIN rp
                  /\ \A x \in DOMAIN rp.recommendations :
                         rp.recommendations[x].type = "maneuver_review"
                  /\ Len(rp.recommendations)
                         = Len(maneuver_analysis(call[1], reference_time(call[1], call[2])))
                  /\ Len(recs') = Len(recs) + Len(rp.recommendations)]_vars

\* The TWD samples of the 30 most recent points of a request, latest first:
\* (cog + twa) % 360 of the points that carry wind data.
recent_wind_samples(session_id, current_time) ==
    LET recent == recent_points(session_id, reference_time(session_id, current_time))
        sampled == SelectSeq(SubSeq(recent, 1, Min2(30, Len(recent))),
                             LAMBDA pt : pt.tws # None /\ pt.twa # None)
    IN  [x \in DOMAIN sampled |-> (sampled[x].cog + The(sampled[x].twa)) % 360]

\* Ten times the difference between the mean of the 10 most recent samples
\* and the mean of the 10 before them, wrapped to +-180 degrees.
recent_wind_shift(samples) ==
    LET diff == sum_seq(SubSeq(samples, 1, 10)) - sum_seq(SubSeq(samples, 11, 20))
    IN  IF diff > 1800 THEN diff - 3600 ELSE IF diff < -1800 THEN diff + 3600 ELSE diff

\* C27: whenever at least 20 of the 30 most recent points carry wind data and
\* the mean TWD of the 10 most recent samples differs from the mean of the 10
\* before them by more than 10 degrees (wrapped to +-180), analyze_and_recommend
\* produces exactly one high-priority 'wind_shift_detected' recommendation with
\* confidence 70, 'right' for a positive and 'left' for a negative difference,
\* whatever the current wind angle.
C27_WindShiftAlertBothDirections ==
    [][\A call \in CoachCalls :
           (/\ has_recent_data(call[1], call[2])
            /\ Len(recent_points(call[1], reference_time(call[1], call[2]))) >= 30
            /\ Len(recent_wind_samples(call[1], call[2])) >= 20
            /\ Abs(recent_wind_shift(recent_wind_samples(call[1], call[2]))) > 100
            /\ analyze_and_recommend(call[1], call[2]))
           => LET alerts == {x \in Len(recs) + 1 .. Len(recs') :
                               recs'[x].recommendation_type = "wind_shift_detected"}
                  shift == recent_wind_shift(recent_wind_samples(call[1], call[2]))
              IN  /\ Cardinality(alerts) = 1
                  /\ \A x \in alerts :
                         /\ recs'[x].priority = "high"
                         /\ recs'[x].confidence_score = 70
                         /\ recs'[x].context_data.direction
                                = IF shift > 0 THEN "right" ELSE "left"]_vars

\* C29: the VMG-deviation advice of analyze_and_recommend points toward the
\* optimum: 'sail_lower' (pinching, too close to the wind) is issued only when
\* the current |TWA| is smaller than the learned optimal angle, and
\* 'sail_higher' (footing) only when it is larger, so that following the advice
\* reduces |current angle - optimal angle|.
C29_VmgAdvicePointsTowardOptimum ==
    [][\A call \in CoachCalls :
           analyze_and_recommend(call[1], call[2])
           => \A x \in Len(recs) + 1 .. Len(recs') :
                  LET current_point ==
                          recent_points(call[1], reference_time(call[1], call[2]))[1]
                      current_twa == Abs(The(current_point.twa))
                      optimal_twa == recs'[x].context_data.optimal_twa
                  IN  /\ recs'[x].recommendation_type = "sail_lower"
                         => current_twa < optimal_twa
                      /\ recs'[x].recommendation_type = "sail_higher"
                         => current_twa > optimal_twa]_vars

\* ------------------------------------------------- maneuver score: claims

\* One detection pass over a session whose turns cover the whole range of the
\* score: 55 degrees and 0.8 kn lost; 140 degrees and 1.5 kn lost; a stop on
\* the opposite heading.
MaxScorePts == 3

ScoreProfiles == {<<60, 350>>, <<52, 45>>, <<45, 130>>, <<0, 170>>}

ScoreGaps == {10, 13}

InitScore ==
    /\ PreIdle
    /\ BaseIdle
    /\ TacIdle
    /\ track \in {[sid \in SessionIds |-> IF sid = 1 THEN t ELSE <<>>] :
                    t \in TracksUpTo(MaxScorePts, ScoreProfiles, ScoreGaps)}
    /\ maneuvers = <<>>
    /\ responses = <<>>
    /\ stats = {}

DetectScore == \E req \in RunRequests : responses = <<>> /\ detect_maneuvers(req)

SpecScore == InitScore /\ [][DetectScore]_vars

\* 100 - 1.5*duration - 12*speed_drop - 0.25*max(0, dtheta - 110) of the window
\* a maneuver of a response was cut from, in units of 1 / (20 * den), from the
\* smoothed series themselves.
raw_score_of(req, m) ==
    LET pts == points_of(req.session_id)
        den == movavg_den(Len(pts), req.smooth_window)
        sog_s == movavg(sog_list(pts), req.smooth_window)
        cog_s == movavg(unwrap_deg(cog_list(pts)), req.smooth_window)
        i0 == index_of_ts(pts, m.start_ts)
        i1 == index_of_ts(pts, m.end_ts)
        dtheta == Abs(At(cog_s, i1) - At(cog_s, i0))
        speed_drop == At(sog_s, i0) - min_slice(sog_s, i0, i1 + 1)
        over == IF dtheta > 110 * den THEN dtheta - 110 * den ELSE 0
    IN  [num |-> 2000 * den - 30 * den * (m.end_ts - m.start_ts)
                 - 24 * speed_drop - 5 * over,
         den |-> 20 * den]

\* C21: every emitted maneuver's score is the integer
\* clamp(round(100 - 1.5*duration_sec - 12*speed_drop_kn
\* - 0.25*max(0, dtheta - 110)), 0, 100) of the unrounded duration, speed drop
\* and heading change (the nearest integer, a tie going to the even one), and
\* so lies in [0, 100].
C21_ScoreIsClampedRoundedFormula ==
    \A r \in DOMAIN responses :
        \A k \in DOMAIN responses[r].maneuvers :
            LET s == responses[r].maneuvers[k].score_0_100
                raw == raw_score_of(responses[r].req, responses[r].maneuvers[k])
            IN  /\ s \in 0..100
                /\ raw.num <= 0 => s = 0
                /\ raw.num >= 100 * raw.den => s = 100
                /\ (raw.num > 0 /\ raw.num < 100 * raw.den) =>
                      /\ 2 * Abs(raw.num - s * raw.den) <= raw.den
                      /\ 2 * Abs(raw.num - s * raw.den) = raw.den => s % 2 = 0

\* A maneuver whose unrounded score lies below the score it was given: rounded
\* up (59.5 gives 60), where cutting the fraction off would give one less.
C21_Witness ==
    \E r \in DOMAIN responses :
        \E k \in DOMAIN responses[r].maneuvers :
            LET s == responses[r].maneuvers[k].score_0_100
                raw == raw_score_of(responses[r].req, responses[r].maneuvers[k])
            IN  /\ raw.num < s * raw.den
                /\ s > 0 /\ s < 100

====
